---- MODULE Spec2Model ----
(***************************************************************************)
(* Model of the adaptive array-programming engine of NI-RRAM-Python:       *)
(* the cell mask (digitalpattern/mask.py), the pulse waveform encoder and  *)
(* the pulse-verify searches (digitalpattern/nirram.py), the window        *)
(* targeting loop (digitalpattern/nirram.py, nirram.py, ni_rram.py), the   *)
(* coarse/fine search and the endurance scheduler.                         *)
(***************************************************************************)
EXTENDS Integers, Sequences, FiniteSets, TLC

(***************************************************************************)
(* Bounds of the model.                                                    *)
(***************************************************************************)
NumWL == 2          \* len(all_wls)
NumBL == 2          \* len(all_bls)
NumSL == 2          \* len(all_sls)
MaxCells == 2       \* addressed cells (len(wls) * len(bls))
MaxLen == 1         \* pulse_len, prepulse_len, postpulse_len of pulse()
MaxPulseLen == 2    \* max_pulse_len of pulse()
MaxPW == 1          \* points of the pulse-width sweep
MaxVWL == 2         \* points of the gate-voltage sweep
MaxVL == 2          \* points of the line-voltage sweep

AllWLs == 1..NumWL
AllBLs == 1..NumBL

VARIABLES
    wls, bls,               \* self.wls, self.bls: the addressed lines
    sls,                    \* self.sls: the source lines of the addressed bitlines
    pc, exc,                \* position of the running routine, exception raised
    mask,                   \* RRAMArrayMask.mask of the running routine
    res_array, res_defined, \* last read result (res_defined: the local is bound)
    pulses, reads,          \* calls of the pulse / read primitives
    hw_waveform, pw_register, pargs,  \* what pulse() handed to the hardware
    op, bl_selected,        \* "SET" or "RESET" (multibit: the res_compare_op); 0 is None
    n_pw, n_vwl, n_vl,      \* number of points of the three sweeps of the call
    i_pw, i_vwl, i_vl,      \* loop positions (pw, vwl, vbl or vsl), 0 before the loops
    success, all_data,      \* the success local and the returned rows
    stub, dev,              \* the read stub and the resistances it holds
    never_hit,              \* history: no read of this call had a cell at its target
    t_variant,              \* the module the NIRRAM object was built from
    n_vsl,                  \* points of the VSL sweep of the scheme (ni_rram.py)
    lo, hi, max_attempts,   \* arguments of target() / targeted_dynamic_set()
    attempt,                \* the loop variable of the attempts
    t_res, t_res_defined,   \* the res local of target()
    t_success,              \* the success local of target()
    plog,                   \* lines appended to the program log
    t_calls,                \* the searches target() invoked, in order
    alt,                    \* history: the device answered as an alternating device
    via_g,                  \* the running target() was called by target_g()
    t_ret,                  \* what the caller got back: "none" yet, "tuple" or "None"
    phase,                  \* targeted_dynamic_set: "coarse" or "fine" pass
    failed_res_too_low, coarse_success, fine_success,
    nc_vwl, nc_vbl,         \* points of the coarse sweeps
    vwl_sweep, vbl_sweep,   \* the sweeps of the running pass
    vwl, vbl,               \* the loop variables of the running pass
    vwl_fine_limit, vbl_fine_limit,
    inits,                  \* initialization sequences run (attempts started)
    fine_pulses,            \* fine-pass pulses of the current attempt
    max_cycles, schedule, max_failures, fail_on_all,  \* endurance arguments
    record,                 \* endurance argument: rows go to self.datafile
    cycle, next_record_cycles, next_record_cycle,
    total_failures, sequential_failures,
    cycles_run,             \* reset+set pairs executed
    recorded,               \* cycles whose rows were recorded
    all_failed,             \* history: every search of every cycle failed for every cell
    data_reset, data_set,   \* success column of the rows the cycle's two searches returned
    print_data, d_record,   \* dynamic_set / dynamic_reset arguments print_data, record
    console, datafile,      \* lines printed and rows written by the running search
    abort_after_measurement,\* Measurement._abort_after_measurement
    sigint_handler,         \* the handler signal.signal installed for SIGINT
    abort_calls,            \* calls of Measurement.abort_handler
    body_exc,               \* exception the body of the with statement raised
    sig_in_body,            \* history: a SIGINT arrived while the body was executing
    sigints, units,         \* signals delivered, measurement units completed
    searches_left, pair,    \* searches the body still runs, pulse/read pair of the search
    rows,                   \* result rows the searches of the body recorded
    u_arg, u_ret,           \* util.py: the call in progress and what it returned:
                            \* the flag of a Comparison member, the points of a sweep
    next_read_cycles        \* the list a call of get_read_cycles returned

cfgVars == <<wls, bls, sls>>
hwVars == <<hw_waveform, pw_register, pargs>>
dynVars == <<op, bl_selected, n_pw, n_vwl, n_vl, i_pw, i_vwl, i_vl, success, all_data,
             stub, dev, never_hit>>
targetVars == <<t_variant, lo, hi, max_attempts, attempt, t_res, t_res_defined,
                t_success, plog, t_calls, alt, n_vsl, via_g, t_ret>>
tdsVars == <<phase, failed_res_too_low, coarse_success, fine_success, nc_vwl, nc_vbl,
             vwl_sweep, vbl_sweep, vwl, vbl, vwl_fine_limit, vbl_fine_limit,
             inits, fine_pulses>>
endVars == <<max_cycles, schedule, max_failures, fail_on_all, record, cycle, next_record_cycles,
             next_record_cycle, total_failures, sequential_failures, cycles_run,
             recorded, all_failed, data_reset, data_set, next_read_cycles>>
logVars == <<print_data, d_record, console, datafile>>
measVars == <<abort_after_measurement, sigint_handler, abort_calls, body_exc, sig_in_body,
              sigints, units, searches_left, pair, rows>>
utilVars == <<u_arg, u_ret>>
vars == <<wls, bls, sls, pc, exc, mask, res_array, res_defined, pulses, reads,
          hw_waveform, pw_register, pargs, dynVars, targetVars, tdsVars, endVars,
          logVars, measVars, utilVars>>

(***************************************************************************)
(* digitalpattern/mask.py                                                  *)
(***************************************************************************)
\* mutant: the row test and the column test are joined by or
NewMask_Or(w, b) == [wl \in AllWLs |-> [bl \in AllBLs |-> (bl \in b) \/ (wl \in w)]]

\* RRAMArrayMask.__init__ with init_state=None
NewMask(w, b) == [wl \in AllWLs |-> [bl \in AllBLs |-> (bl \in b) /\ (wl \in w)]]

\* self.mask.apply(np.sum, axis=1) for one row
RowSum(m, wl) == Cardinality({bl \in AllBLs : m[wl][bl]})

\* mutant: rows are not filtered (.ge(0))
NeededWLs_AllRows(m) == SelectSeq([i \in 1..NumWL |-> i], LAMBDA wl : RowSum(m, wl) >= 0)

\* needed_wls = self.mask[self.mask.apply(np.sum,axis=1).ge(1)]
NeededWLs(m) == SelectSeq([i \in 1..NumWL |-> i], LAMBDA wl : RowSum(m, wl) >= 1)

\* mutant: the bitline vector of a needed row is the bitline selection
GetPulseMasks_RowOnly(m) ==
    [k \in 1..Len(NeededWLs(m)) |->
        [wl_mask |-> [i \in 1..NumWL |-> i = NeededWLs(m)[k]],
         bl_mask |-> [j \in 1..NumBL |-> j \in bls],
         sl_mask |-> [j \in 1..NumBL |-> FALSE]]]

\* RRAMArrayMask.get_pulse_masks: one (wl_mask, bl_mask, sl_mask) per needed row
GetPulseMasks(m) ==
    [k \in 1..Len(NeededWLs(m)) |->
        LET wl == NeededWLs(m)[k]
            bl_mask == [j \in 1..NumBL |-> m[wl][j]]
        IN  [wl_mask |-> [i \in 1..NumWL |-> i = wl],
             bl_mask |-> bl_mask,
             sl_mask |-> [j \in 1..NumBL |-> bl_mask[j] /\ FALSE]]]

(***************************************************************************)
(* digitalpattern/nirram.py: pulse()                                       *)
(***************************************************************************)
RECURSIVE IntVal(_)
\* BitVector(bitlist=...).int_val(): the first bit is the most significant
IntVal(bits) ==
    IF Len(bits) = 0 THEN 0
    ELSE 2 * IntVal(SubSeq(bits, 1, Len(bits) - 1))
         + (IF bits[Len(bits)] THEN 1 ELSE 0)

Pow2(n) == 2 ^ n
\* [x for i in range(n)]: empty when n <= 0
Repeat(x, n) == [i \in 1..n |-> x]
AllFalse(bits) == [i \in 1..Len(bits) |-> bits[i] /\ FALSE]

\* mutant: the bitline bits are shifted past the wordline bits only
bl_bits_offset_NoSL == NumWL

bl_bits_offset == NumWL + NumSL
sl_bits_offset == NumWL

\* the three frame values of one mask row
Frames(t, wl_first) ==
    LET wl_mask_bits == IntVal(t.wl_mask)
        bl_mask_bits == IntVal(t.bl_mask)
        sl_mask_bits == IntVal(t.sl_mask)
    IN  IF ~wl_first
        THEN LET wl_pre_post_bits == IntVal(AllFalse(t.wl_mask))
             IN [pre  |-> bl_mask_bits * Pow2(bl_bits_offset) + sl_mask_bits * Pow2(sl_bits_offset) + wl_pre_post_bits,
                 main |-> bl_mask_bits * Pow2(bl_bits_offset) + sl_mask_bits * Pow2(sl_bits_offset) + wl_mask_bits,
                 post |-> bl_mask_bits * Pow2(bl_bits_offset) + sl_mask_bits * Pow2(sl_bits_offset) + wl_pre_post_bits]
        ELSE LET bl_pre_post_bits == IntVal(AllFalse(t.bl_mask))
                 sl_pre_post_bits == IntVal(AllFalse(t.sl_mask))
             IN [pre  |-> bl_pre_post_bits * Pow2(bl_bits_offset) + sl_pre_post_bits * Pow2(sl_bits_offset) + wl_mask_bits,
                 main |-> bl_mask_bits * Pow2(bl_bits_offset) + sl_mask_bits * Pow2(sl_bits_offset) + wl_mask_bits,
                 post |-> bl_pre_post_bits * Pow2(bl_bits_offset) + sl_pre_post_bits * Pow2(sl_bits_offset) + wl_mask_bits]

RECURSIVE RowFrames(_, _, _)
\* the loop over mask.get_pulse_masks(): waveform += pre + main + post
RowFrames(ts, a, k) ==
    IF k > Len(ts) THEN <<>>
    ELSE LET f == Frames(ts[k], a.wl_first)
         IN  Repeat(f.pre, a.prepulse_len) \o Repeat(f.main, a.pulse_len)
             \o Repeat(f.post, a.postpulse_len) \o RowFrames(ts, a, k + 1)

\* zero-pad rest of waveform
ZeroPad(w, a) == w \o Repeat(0, a.max_pulse_len * NumWL - Len(w))

\* the waveform pulse() writes with write_source_waveform_broadcast
PulseWaveform(m, a) == ZeroPad(RowFrames(GetPulseMasks(m), a, 1), a)

\* mutant: the pre-pulse and post-pulse frames are left out of the width
PulseWidth_MainOnly(a) == a.pulse_len

\* the value pulse() passes to set_pw
PulseWidth(a) == a.prepulse_len + a.pulse_len + a.postpulse_len

NoArgs == [pulse_len |-> 0, prepulse_len |-> 0, postpulse_len |-> 0,
           max_pulse_len |-> 0, wl_first |-> TRUE]
PulseArgs == [pulse_len : 0..MaxLen, prepulse_len : {0, 1}, postpulse_len : {0, 1},
              max_pulse_len : 1..MaxPulseLen, wl_first : BOOLEAN]

Grids == [AllWLs -> [AllBLs -> BOOLEAN]]
ZeroRes == [wl \in AllWLs |-> [bl \in AllBLs |-> 0]]

(***************************************************************************)
(* Specification of the mask and the waveform encoder.                     *)
(***************************************************************************)
InitCommon ==
    /\ exc = "none"
    /\ res_array = ZeroRes /\ res_defined = FALSE
    /\ pulses = 0 /\ reads = 0
    /\ hw_waveform = <<>> /\ pw_register = 0 /\ pargs = NoArgs

InitDynVars ==
    /\ op = "SET" /\ bl_selected = 0
    /\ n_pw = 0 /\ n_vwl = 0 /\ n_vl = 0
    /\ i_pw = 0 /\ i_vwl = 0 /\ i_vl = 0
    /\ success = FALSE /\ all_data = <<>>
    /\ stub = "free" /\ dev = ZeroRes /\ never_hit = TRUE

InitTargetLocals ==
    /\ lo = 0 /\ hi = 0 /\ max_attempts = 0 /\ n_vsl = 0
    /\ attempt = 0 /\ t_res = 0 /\ t_res_defined = FALSE /\ t_success = FALSE
    /\ plog = 0 /\ t_calls = <<>> /\ alt = TRUE
    /\ via_g = FALSE /\ t_ret = "none"

InitTargetVars == t_variant = "digitalpattern" /\ InitTargetLocals

InitTdsVars ==
    /\ phase = "coarse" /\ failed_res_too_low = FALSE
    /\ coarse_success = FALSE /\ fine_success = FALSE
    /\ nc_vwl = 0 /\ nc_vbl = 0 /\ inits = 0 /\ fine_pulses = 0
    /\ vwl_sweep = <<>> /\ vbl_sweep = <<>> /\ vwl = 0 /\ vbl = 0
    /\ vwl_fine_limit = 0 /\ vbl_fine_limit = 0

InitEndVars ==
    /\ max_cycles = 0 /\ schedule = <<>> /\ max_failures = 0 /\ fail_on_all = TRUE
    /\ record = TRUE
    /\ cycle = 0 /\ next_record_cycles = <<>> /\ next_record_cycle = 0
    /\ total_failures = 0 /\ sequential_failures = 0
    /\ cycles_run = 0 /\ recorded = {} /\ all_failed = TRUE
    /\ data_reset = <<>> /\ data_set = <<>> /\ next_read_cycles = <<>>

\* a call of a function of util.py: a and b are the two operands of a
\* Comparison member (kind) or the start and stop of a sweep dict
CallArg(fn, kind, a, b, step, steps, list) ==
    [fn |-> fn, kind |-> kind, a |-> a, b |-> b, step |-> step, steps |-> steps,
     list |-> list]

NoCall == CallArg("none", "", 0, 0, 0, 0, <<>>)

\* the state around the searches before anything ran: print_data=True and
\* record=True are the defaults of the two searches, no measurement unit was
\* started, no function of util.py was called
InitHost ==
    /\ print_data = TRUE /\ d_record = TRUE /\ console = {} /\ datafile = <<>>
    /\ abort_after_measurement = FALSE /\ sigint_handler = "original"
    /\ abort_calls = 0 /\ body_exc = "none" /\ sig_in_body = FALSE
    /\ sigints = 0 /\ units = 0 /\ searches_left = 0 /\ pair = 0 /\ rows = 0
    /\ u_arg = NoCall /\ u_ret = [flag |-> FALSE, points |-> <<>>]

InitOthers ==
    /\ InitCommon /\ InitDynVars /\ InitTargetVars /\ InitTdsVars /\ InitEndVars
    /\ InitHost

InitPulse ==
    /\ InitOthers
    /\ wls \in SUBSET AllWLs /\ bls \in SUBSET AllBLs
    /\ Cardinality(wls) * Cardinality(bls) <= MaxCells
    /\ sls = bls
    /\ pc = "idle"
    /\ mask = NewMask(wls, bls)

\* RRAMArrayMask.update_mask(failing); failing is a grid over the addressed cells
UpdateMask(failing) ==
    /\ pc = "idle"
    /\ \A wl \in AllWLs, bl \in AllBLs : failing[wl][bl] => (wl \in wls /\ bl \in bls)
    /\ mask' = failing
    /\ UNCHANGED <<cfgVars, pc, exc, res_array, res_defined, pulses, reads,
                   hwVars, dynVars, targetVars, tdsVars, endVars, logVars, measVars, utilVars>>

\* RRAMArrayMask(w, b, s, ...) for the selection of a newly configured object
\* (self.wls x self.bls in the searches, all_wls x [] for all_off_mask); s is
\* one source line per bitline, or the single shared source line.  No length
\* is compared and RRAMArrayMaskException is never raised.
MaskConstruct(w, b, s) ==
    /\ pc = "idle"
    /\ Cardinality(w) * Cardinality(b) <= MaxCells
    /\ wls' = w /\ bls' = b /\ sls' = s
    /\ mask' = NewMask(w, b)
    /\ pc' = "built"
    /\ UNCHANGED <<exc, res_array, res_defined, pulses, reads,
                   hwVars, dynVars, targetVars, tdsVars, endVars, logVars, measVars, utilVars>>

\* the constructor returned; the caller goes on with the mask
MaskBuilt ==
    /\ pc = "built"
    /\ pc' = "idle"
    /\ UNCHANGED <<cfgVars, exc, mask, res_array, res_defined, pulses, reads,
                   hwVars, dynVars, targetVars, tdsVars, endVars, logVars, measVars, utilVars>>

\* NIRRAM.pulse(mask, ...) up to write_source_waveform_broadcast: the waveform
\* is built and written
PulseCall(a) ==
    /\ pc = "idle"
    /\ hw_waveform' = PulseWaveform(mask, a)
    /\ pargs' = a
    /\ pc' = "loaded"
    /\ UNCHANGED <<cfgVars, exc, mask, res_array, res_defined, pulses, reads, pw_register,
                   dynVars, targetVars, tdsVars, endVars, logVars, measVars, utilVars>>

\* self.set_pw(prepulse_len + pulse_len + postpulse_len)
PulseSetPw ==
    /\ pc = "loaded"
    /\ pw_register' = PulseWidth(pargs)
    /\ pc' = "armed"
    /\ UNCHANGED <<cfgVars, exc, mask, res_array, res_defined, pulses, reads, hw_waveform,
                   pargs, dynVars, targetVars, tdsVars, endVars, logVars, measVars, utilVars>>

\* self.digital.burst_pattern("WL_PULSE_DEC3")
PulseBurst ==
    /\ pc = "armed"
    /\ pulses' = 1
    /\ pc' = "burst"
    /\ UNCHANGED <<cfgVars, exc, mask, res_array, res_defined, reads, hwVars,
                   dynVars, targetVars, tdsVars, endVars, logVars, measVars, utilVars>>

\* burst_pattern returns: the waveform has been sourced
PulseReturn ==
    /\ pc = "burst"
    /\ pc' = "idle"
    /\ hw_waveform' = <<>>
    /\ pargs' = NoArgs
    /\ pulses' = 0
    /\ UNCHANGED <<cfgVars, exc, mask, res_array, res_defined, reads, pw_register,
                   dynVars, targetVars, tdsVars, endVars, logVars, measVars, utilVars>>

NextPulse ==
    \/ \E failing \in Grids : UpdateMask(failing)
    \/ \E w \in SUBSET AllWLs, b \in SUBSET AllBLs : \E s \in {b, {1}} :
          MaskConstruct(w, b, s)
    \/ MaskBuilt
    \/ \E a \in PulseArgs : PulseCall(a)
    \/ PulseSetPw
    \/ PulseBurst
    \/ PulseReturn

SpecPulse == InitPulse /\ [][NextPulse]_vars

(***************************************************************************)
(* Properties of the mask and the waveform encoder.                        *)
(***************************************************************************)
ActiveRows(m) == {wl \in AllWLs : \E bl \in AllBLs : m[wl][bl]}

\* C1 (as claimed): the waveform handed to the hardware has exactly
\* max_pulse_len * len(all_wls) frames, and when the active rows need more
\* frames than that pulse() fails with an overflow error instead of sending.
C1_LengthOrOverflow ==
    pc = "burst" =>
        /\ Len(hw_waveform) = pargs.max_pulse_len * NumWL
        /\ Cardinality(ActiveRows(mask)) * PulseWidth(pargs) <= pargs.max_pulse_len * NumWL

\* C3: get_pulse_masks yields exactly one triple per row with a true entry,
\* none for an all-false row; the wordline vector is one-hot at the row and
\* the bitline vector is that row of the mask, with at least one true entry.
C3_PulseMasksRows ==
    LET ms == GetPulseMasks(mask)
    IN  /\ \A wl \in AllWLs :
              Cardinality({k \in 1..Len(ms) : ms[k].wl_mask[wl]})
                  = (IF wl \in ActiveRows(mask) THEN 1 ELSE 0)
        /\ \A k \in 1..Len(ms) :
              /\ Len(ms[k].wl_mask) = NumWL /\ Len(ms[k].bl_mask) = NumBL
              /\ Cardinality({i \in 1..NumWL : ms[k].wl_mask[i]}) = 1
              /\ \E j \in 1..NumBL : ms[k].bl_mask[j]
              /\ \A wl \in AllWLs : ms[k].wl_mask[wl] =>
                    \A j \in AllBLs : ms[k].bl_mask[j] = mask[wl][j]

\* a pulse was built from a mask with a cleared row and a partly cleared row
C3_Witness ==
    /\ pc = "burst"
    /\ \E wl \in AllWLs : wl \notin ActiveRows(mask)
    /\ \E wl \in AllWLs, b1, b2 \in AllBLs : mask[wl][b1] /\ ~mask[wl][b2]
    /\ Len(GetPulseMasks(mask)) = 1

\* C18: a mask constructed without init_state is true at (wl, bl) exactly
\* when wl is a selected wordline and bl a selected bitline, over the whole
\* all_wls x all_bls grid; built from an empty selection it has no true entry
\* and yields no pulse masks.
C18_MaskIsSelection ==
    pc = "built" =>
        /\ DOMAIN mask = AllWLs /\ \A wl \in AllWLs : DOMAIN mask[wl] = AllBLs
        /\ \A wl \in AllWLs, bl \in AllBLs : mask[wl][bl] <=> (wl \in wls /\ bl \in bls)
        /\ (wls = {} \/ bls = {}) =>
              /\ \A wl \in AllWLs, bl \in AllBLs : ~mask[wl][bl]
              /\ GetPulseMasks(mask) = <<>>

\* C19 (as claimed): constructing a mask whose bitlines and source lines
\* differ in number fails; no mask is produced and no pulse is issued from it.
C19_LengthMismatchRejected ==
    (wls # {} /\ bls # {} /\ Cardinality(bls) # Cardinality(sls)) =>
        pc \notin {"built", "burst"}

\* C20 (as claimed): in a waveform sent for set_pulse / reset_pulse (they call
\* pulse(mask, pulse_len=pulse_len), so wl_first keeps its default True), the
\* pre-pulse and post-pulse frames of a mask row carry the bitline bits of the
\* row and no wordline bit, and the wordline bit of the row is set in the
\* main frames only.
C20_PrePostHoldWordlines ==
    (pc = "burst" /\ pargs.wl_first) =>
        LET ms == GetPulseMasks(mask)
            w == PulseWidth(pargs)
        IN  \A k \in 1..Len(ms) : \A j \in 1..w :
              LET f == hw_waveform[(k - 1) * w + j]
                  main == j > pargs.prepulse_len /\ j <= pargs.prepulse_len + pargs.pulse_len
              IN  /\ f \div Pow2(bl_bits_offset) = IntVal(ms[k].bl_mask)
                  /\ f % Pow2(NumWL) = IF main THEN IntVal(ms[k].wl_mask) ELSE 0

\* C21 (as claimed): in every triple of get_pulse_masks the sourceline vector
\* marks the source lines of the row's active cells (source line j belongs to
\* bitline j), and the main frames carry those sourceline bits next to the
\* wordline and bitline bits.
C21_SourcelinesFollowRow ==
    pc = "burst" =>
        LET ms == GetPulseMasks(mask)
            w == PulseWidth(pargs)
        IN  \A k \in 1..Len(ms) :
              /\ \A j \in 1..Len(ms[k].sl_mask) : ms[k].sl_mask[j] <=> ms[k].bl_mask[j]
              /\ \A j \in (pargs.prepulse_len + 1)..(pargs.prepulse_len + pargs.pulse_len) :
                    LET f == hw_waveform[(k - 1) * w + j]
                    IN  /\ f % Pow2(NumWL) = IntVal(ms[k].wl_mask)
                        /\ f \div Pow2(bl_bits_offset) = IntVal(ms[k].bl_mask)
                        /\ (f \div Pow2(sl_bits_offset)) % Pow2(NumSL)
                              = IntVal(ms[k].sl_mask)

\* C22: the pulse width register is written only by the set_pw step of
\* pulse(), with prepulse_len + pulse_len + postpulse_len whatever the mask;
\* at that step the waveform of the call is already written and the burst
\* not yet started, and the burst starts with that register value.
C22_PulseWidthRegister ==
    [][ /\ (pw_register' # pw_register) => (pc = "loaded" /\ pc' = "armed")
        /\ (pc = "loaded" /\ pc' = "armed") =>
              /\ pw_register' = pargs.prepulse_len + pargs.pulse_len + pargs.postpulse_len
              /\ hw_waveform = PulseWaveform(mask, pargs) /\ hw_waveform' = hw_waveform
              /\ pulses = 0 /\ pulses' = 0
        /\ (pc' = "burst" /\ pc # "burst") =>
              /\ pc = "armed"
              /\ pw_register' = pargs.prepulse_len + pargs.pulse_len + pargs.postpulse_len
      ]_vars

\* a burst of two mask rows with pre-pulse, main and post-pulse frames
C22_Witness ==
    /\ pc = "burst" /\ Cardinality(ActiveRows(mask)) = 2
    /\ pargs.prepulse_len = 1 /\ pargs.pulse_len = 1 /\ pargs.postpulse_len = 1
    /\ pw_register = 3

\* C36: with W = len(all_wls) and S = len(all_sls), every frame pulse()
\* builds for a mask row splits into three fields that do not overlap: frame
\* mod 2^W holds the wordline bits, (frame >> W) mod 2^S the sourceline bits
\* and frame >> (W + S) the bitline bits, line i of a group at the place the
\* order [BL0 BL1 .. SL0 SL1 .. WL0 WL1 ..] gives it (first line of a group
\* at the group's highest bit).
C36_FramesDecode ==
    pc = "burst" =>
        LET ms == GetPulseMasks(mask)
            w == PulseWidth(pargs)
            Bit(x, p) == (x \div (2 ^ p)) % 2
        IN  \A k \in 1..Len(ms) : \A j \in 1..w :
              LET f == hw_waveform[(k - 1) * w + j]
                  main == j > pargs.prepulse_len /\ j <= pargs.prepulse_len + pargs.pulse_len
                  wl_on == main \/ pargs.wl_first
                  bl_on == main \/ ~pargs.wl_first
                  wlf == f % (2 ^ NumWL)
                  slf == (f \div (2 ^ NumWL)) % (2 ^ NumSL)
                  blf == f \div (2 ^ (NumWL + NumSL))
              IN  /\ blf < 2 ^ NumBL
                  /\ \A i \in 1..NumWL :
                        (Bit(wlf, NumWL - i) = 1) <=> (ms[k].wl_mask[i] /\ wl_on)
                  /\ \A i \in 1..NumSL :
                        (Bit(slf, NumSL - i) = 1) <=> (ms[k].sl_mask[i] /\ bl_on)
                  /\ \A i \in 1..NumBL :
                        (Bit(blf, NumBL - i) = 1) <=> (ms[k].bl_mask[i] /\ bl_on)

\* a burst of a row with two active bitlines, lines held first: a pre-pulse
\* frame with the bitline field only, then a main frame with both fields
C36_Witness ==
    /\ pc = "burst" /\ ~pargs.wl_first
    /\ pargs.prepulse_len = 1 /\ pargs.pulse_len = 1
    /\ \E wl \in AllWLs : Cardinality({bl \in AllBLs : mask[wl][bl]}) = 2
    /\ hw_waveform[1] % (2 ^ NumWL) = 0 /\ hw_waveform[1] > 0
    /\ hw_waveform[2] % (2 ^ NumWL) > 0 /\ hw_waveform[2] > hw_waveform[1]

\* a mask built for some wordlines and no bitline, as all_off_mask is
C18_Witness ==
    /\ pc = "built" /\ wls # {} /\ bls = {}
    /\ GetPulseMasks(mask) = <<>>


(***************************************************************************)
(* digitalpattern/nirram.py: dynamic_set / dynamic_reset                   *)
(***************************************************************************)
TargetRes == 10     \* target_res of the search
MaxStart == 2       \* the decreasing stub starts at most this far above target

RECURSIVE SortedSeq(_)
\* a list of line names in settings order
SortedSeq(S) ==
    IF S = {} THEN <<>>
    ELSE LET x == CHOOSE y \in S : \A z \in S : y <= z
         IN  <<x>> \o SortedSeq(S \ {x})

\* for wl in self.wls: for bl in self.bls
CellSeq(w, b) ==
    LET ws == SortedSeq(w)
        bs == SortedSeq(b)
    IN  [k \in 1..(Len(ws) * Len(bs)) |->
            <<ws[((k - 1) \div Len(bs)) + 1], bs[((k - 1) % Len(bs)) + 1]>>]

Addressed(wl, bl) == wl \in wls /\ bl \in bls

\* the comparison of the pulse-verify loop: <= for set, >= for reset
Reached(opn, r) == IF opn = "SET" THEN r <= TargetRes ELSE r >= TargetRes

\* mutant: strict comparison in the final report
CellSuccess_Strict(opn, r) == IF opn = "SET" THEN r < TargetRes ELSE r > TargetRes

\* cell_success of the final report
CellSuccess(opn, r) == IF opn = "SET" THEN r <= TargetRes ELSE r >= TargetRes

\* mutant: the mask is recomputed from the read instead of only cleared
ClearConverged_Recompute(m, res, opn) ==
    [wl \in AllWLs |-> [bl \in AllBLs |-> Addressed(wl, bl) /\ ~Reached(opn, res[wl][bl])]]

\* if (res <= target_res) & mask.mask.loc[wl_i, bl_i]: mask.mask.loc[wl_i, bl_i] = False
ClearConverged(m, res, opn) ==
    [wl \in AllWLs |-> [bl \in AllBLs |->
        IF Addressed(wl, bl) /\ Reached(opn, res[wl][bl]) /\ m[wl][bl]
        THEN FALSE ELSE m[wl][bl]]]

MaskSum(m) == Cardinality({c \in AllWLs \X AllBLs : m[c[1]][c[2]]})

\* 1TNR success condition: no addressed wordline has the selected cell off target
Success1TNR(m, res, opn, sel) ==
    ~ \E wl \in wls : ~Reached(opn, res[wl][sel]) /\ m[wl][sel]

\* values the free stub returns: at the target or one step short of it
ReadVals(opn) == IF opn = "SET" THEN {TargetRes, TargetRes + 1}
                                ELSE {TargetRes - 1, TargetRes}

\* a grid holding the values f of the addressed cells (0 elsewhere)
AsGrid(f) ==
    [wl \in AllWLs |-> [bl \in AllBLs |-> IF Addressed(wl, bl) THEN f[<<wl, bl>>] ELSE 0]]

\* the result of one read as a grid (unaddressed cells are not part of it)
ReadGrids(opn) == {AsGrid(f) : f \in [wls \X bls -> ReadVals(opn)]}

\* resistances the decreasing stub starts from
DevStarts == {AsGrid(f) : f \in [wls \X bls -> (TargetRes + 1)..(TargetRes + MaxStart)]}

NumCombos == n_pw * n_vwl * n_vl

InitDyn ==
    /\ InitOthers
    /\ wls \in (SUBSET AllWLs) \ {{}} /\ bls \in (SUBSET AllBLs) \ {{}}
    /\ Cardinality(wls) * Cardinality(bls) <= MaxCells
    /\ sls = bls
    /\ pc = "idle"
    /\ mask = NewMask({}, {})

\* dynamic_set(...) / dynamic_reset(...) up to the first loop iteration
DynCall(opn, sel, a, b, c, st, d) ==
    /\ pc = "idle"
    /\ op' = opn /\ bl_selected' = sel
    /\ n_pw' = a /\ n_vwl' = b /\ n_vl' = c
    /\ stub' = st /\ dev' = d
    /\ mask' = NewMask(wls, bls)
    /\ success' = FALSE
    /\ res_array' = ZeroRes /\ res_defined' = FALSE
    /\ all_data' = <<>> /\ exc' = "none"
    /\ pulses' = 0 /\ reads' = 0 /\ never_hit' = TRUE
    /\ IF a >= 1 /\ b >= 1 /\ c >= 1
       THEN i_pw' = 1 /\ i_vwl' = 1 /\ i_vl' = 1 /\ pc' = "pulse"
       ELSE i_pw' = (IF a >= 1 THEN a ELSE 0) /\ i_vwl' = 0 /\ i_vl' = 0 /\ pc' = "report"
    \* dynamic_set prints every pulse width its outer loop enters
    /\ console' = IF opn = "SET" /\ a >= 1
                  THEN {[kind |-> "number", wl |-> 0, bl |-> 0, res |-> 0, success |-> FALSE]}
                  ELSE {}
    /\ datafile' = <<>>
    /\ UNCHANGED <<cfgVars, hwVars, targetVars, tdsVars, endVars, print_data, d_record,
                   measVars, utilVars>>

\* the arguments set_pulse / reset_pulse hand to pulse(): pulse_len=int(pw),
\* the i-th pulse width of the sweep (i frames), the others at their defaults
SetPulseArgs(i) ==
    [pulse_len |-> i, prepulse_len |-> 2, postpulse_len |-> 0,
     max_pulse_len |-> 10000, wl_first |-> TRUE]

\* set_pulse / reset_pulse with the mask of the call, up to the burst of
\* pulse(); hw_waveform holds the frames ahead of the zero padding
DynPulse ==
    /\ pc = "pulse"
    /\ pulses' = pulses + 1
    /\ pargs' = SetPulseArgs(i_pw)
    /\ hw_waveform' = RowFrames(GetPulseMasks(mask), pargs', 1)
    /\ pw_register' = PulseWidth(pargs')
    /\ dev' = IF stub = "decreasing"
              THEN [wl \in AllWLs |-> [bl \in AllBLs |->
                        IF Addressed(wl, bl) THEN dev[wl][bl] - 1 ELSE dev[wl][bl]]]
              ELSE dev
    /\ pc' = "read"
    /\ UNCHANGED <<cfgVars, exc, mask, res_array, res_defined, reads,
                   op, bl_selected, n_pw, n_vwl, n_vl, i_pw, i_vwl, i_vl,
                   success, all_data, stub, never_hit, targetVars, tdsVars, endVars,
                   logVars, measVars, utilVars>>

\* mutant: the gate voltage loop is the innermost one
DynRead_GateInnermost(g) ==
    /\ pc = "read"
    /\ IF stub = "decreasing" THEN g = dev ELSE g \in ReadGrids(op)
    /\ reads' = reads + 1
    /\ res_array' = g /\ res_defined' = TRUE
    /\ never_hit' = (never_hit /\ \A wl \in wls, bl \in bls : ~Reached(op, g[wl][bl]))
    /\ IF bl_selected = 0
       THEN /\ mask' = ClearConverged(mask, g, op)
            /\ success' = (MaskSum(mask') = 0)
       ELSE /\ mask' = mask
            /\ success' = Success1TNR(mask, g, op, bl_selected)
    /\ IF success' THEN
            /\ pc' = "report" /\ UNCHANGED <<i_pw, i_vwl, i_vl>>
       ELSE IF i_vwl < n_vwl THEN
            /\ pc' = "pulse" /\ i_vwl' = i_vwl + 1 /\ UNCHANGED <<i_pw, i_vl>>
       ELSE IF i_vl < n_vl THEN
            /\ pc' = "pulse" /\ i_vwl' = 1 /\ i_vl' = i_vl + 1 /\ UNCHANGED i_pw
       ELSE IF i_pw < n_pw THEN
            /\ pc' = "pulse" /\ i_vl' = 1 /\ i_vwl' = 1 /\ i_pw' = i_pw + 1
       ELSE /\ pc' = "report" /\ UNCHANGED <<i_pw, i_vwl, i_vl>>
    \* dynamic_reset prints the bare resistances it tests in standard mode
    /\ console' = IF op = "RESET" /\ bl_selected = 0
                  THEN console \cup {[kind |-> "number", wl |-> 0, bl |-> 0, res |-> 0, success |-> FALSE]}
                  ELSE console
    \* the burst has returned: the waveform has been sourced
    /\ hw_waveform' = <<>> /\ pargs' = NoArgs
    /\ UNCHANGED <<cfgVars, pw_register, exc, pulses, op, bl_selected, n_pw, n_vwl, n_vl,
                   all_data, stub, dev, targetVars, tdsVars, endVars, print_data,
                   d_record, datafile, measVars, utilVars>>

\* the return of set_pulse / reset_pulse, then read_pulse(), the success
\* condition and the three break statements
DynRead(g) ==
    /\ pc = "read"
    /\ IF stub = "decreasing" THEN g = dev ELSE g \in ReadGrids(op)
    /\ reads' = reads + 1
    /\ res_array' = g /\ res_defined' = TRUE
    /\ never_hit' = (never_hit /\ \A wl \in wls, bl \in bls : ~Reached(op, g[wl][bl]))
    /\ IF bl_selected = 0
       THEN /\ mask' = ClearConverged(mask, g, op)
            /\ success' = (MaskSum(mask') = 0)
       ELSE /\ mask' = mask
            /\ success' = Success1TNR(mask, g, op, bl_selected)
    /\ IF success' THEN
            /\ pc' = "report" /\ UNCHANGED <<i_pw, i_vwl, i_vl>>
       ELSE IF i_vl < n_vl THEN
            /\ pc' = "pulse" /\ i_vl' = i_vl + 1 /\ UNCHANGED <<i_pw, i_vwl>>
       ELSE IF i_vwl < n_vwl THEN
            /\ pc' = "pulse" /\ i_vl' = 1 /\ i_vwl' = i_vwl + 1 /\ UNCHANGED i_pw
       ELSE IF i_pw < n_pw THEN
            /\ pc' = "pulse" /\ i_vl' = 1 /\ i_vwl' = 1 /\ i_pw' = i_pw + 1
       ELSE /\ pc' = "report" /\ UNCHANGED <<i_pw, i_vwl, i_vl>>
    \* dynamic_reset prints the bare resistances it tests in standard mode
    /\ console' = IF op = "RESET" /\ bl_selected = 0
                  THEN console \cup {[kind |-> "number", wl |-> 0, bl |-> 0, res |-> 0, success |-> FALSE]}
                  ELSE console
    \* the burst has returned: the waveform has been sourced
    /\ hw_waveform' = <<>> /\ pargs' = NoArgs
    /\ UNCHANGED <<cfgVars, pw_register, exc, pulses, op, bl_selected, n_pw, n_vwl, n_vl,
                   all_data, stub, dev, targetVars, tdsVars, endVars, print_data,
                   d_record, datafile, measVars, utilVars>>

\* report final cell results
DynReport ==
    /\ pc = "report"
    /\ IF res_defined
       THEN /\ all_data' = [k \in 1..Len(CellSeq(wls, bls)) |->
                              LET wl == CellSeq(wls, bls)[k][1]
                                  bl == CellSeq(wls, bls)[k][2]
                              IN  [wl |-> wl, bl |-> bl, res |-> res_array[wl][bl],
                                   success |-> CellSuccess(op, res_array[wl][bl])]]
            /\ pc' = "done" /\ exc' = exc
       ELSE /\ all_data' = <<>>
            /\ pc' = "raised" /\ exc' = "UnboundLocalError"
    \* if print_data: print(cell_data); if record: self.datafile.writerow(cell_data)
    /\ console' = IF print_data
                  THEN console \cup {[kind |-> "cell", wl |-> all_data'[k].wl,
                                       bl |-> all_data'[k].bl, res |-> all_data'[k].res,
                                       success |-> all_data'[k].success] :
                                          k \in 1..Len(all_data')}
                  ELSE console
    /\ datafile' = IF d_record THEN all_data' ELSE <<>>
    /\ UNCHANGED <<cfgVars, hwVars, mask, res_array, res_defined, pulses, reads,
                   op, bl_selected, n_pw, n_vwl, n_vl, i_pw, i_vwl, i_vl,
                   success, stub, dev, never_hit, targetVars, tdsVars, endVars,
                   print_data, d_record, measVars, utilVars>>

\* the caller takes the rows (or the exception); the locals are dropped, and
\* the next call is explored from a newly configured object (every pulse
\* writes the pulse width register before its burst)
DynReturn ==
    /\ pc \in {"done", "raised"}
    /\ pc' = "idle"
    /\ pw_register' = 0
    /\ mask' = NewMask({}, {})
    /\ exc' = "none"
    /\ res_array' = ZeroRes /\ res_defined' = FALSE
    /\ pulses' = 0 /\ reads' = 0
    /\ op' = "SET" /\ bl_selected' = 0
    /\ n_pw' = 0 /\ n_vwl' = 0 /\ n_vl' = 0
    /\ i_pw' = 0 /\ i_vwl' = 0 /\ i_vl' = 0
    /\ success' = FALSE /\ all_data' = <<>>
    /\ stub' = "free" /\ dev' = ZeroRes /\ never_hit' = TRUE
    /\ console' = {} /\ datafile' = <<>>
    /\ UNCHANGED <<cfgVars, hw_waveform, pargs, targetVars, tdsVars, endVars, print_data, d_record,
                   measVars, utilVars>>

\* a call against a stub that answers any value
DynCallFree ==
    /\ pc = "idle"
    /\ \E opn \in {"SET", "RESET"}, sel \in {0} \cup bls,
          a \in 0..MaxPW, b \in 0..MaxVWL, c \in 0..MaxVL :
            DynCall(opn, sel, a, b, c, "free", ZeroRes)

\* a call against a stub whose resistances drop with every pulse (a sweep
\* without combinations never reads the stub: those calls are DynCallFree's)
DynCallDecreasing ==
    /\ pc = "idle"
    /\ \E d \in DevStarts, opn \in {"SET", "RESET"}, sel \in {0} \cup bls,
          a \in 1..MaxPW, b \in 1..MaxVWL, c \in 1..MaxVL :
            DynCall(opn, sel, a, b, c, "decreasing", d)

DynReadAny ==
    /\ pc = "read"
    /\ \E g \in ReadGrids(op) \cup {dev} : DynRead(g)

NextDyn ==
    \/ DynCallFree
    \/ DynCallDecreasing
    \/ DynPulse
    \/ DynReadAny
    \/ DynReport
    \/ DynReturn

SpecDyn == InitDyn /\ [][NextDyn]_vars

\* the searches of one wordline, called with any print_data and record flags
\* (endurance_dynamic_set_reset passes print_data=False, record=False)
InitDynLog ==
    /\ InitCommon /\ InitDynVars /\ InitTargetVars /\ InitTdsVars /\ InitEndVars
    /\ print_data \in BOOLEAN /\ d_record \in BOOLEAN
    /\ console = {} /\ datafile = <<>>
    /\ abort_after_measurement = FALSE /\ sigint_handler = "original"
    /\ abort_calls = 0 /\ body_exc = "none" /\ sig_in_body = FALSE
    /\ sigints = 0 /\ units = 0 /\ searches_left = 0 /\ pair = 0 /\ rows = 0
    /\ u_arg = NoCall /\ u_ret = [flag |-> FALSE, points |-> <<>>]
    /\ wls = {1} /\ bls \in (SUBSET AllBLs) \ {{}}
    /\ Cardinality(wls) * Cardinality(bls) <= MaxCells
    /\ sls = bls
    /\ pc = "idle"
    /\ mask = NewMask({}, {})

SpecDynLog == InitDynLog /\ [][NextDyn]_vars

\* C25: when the report of a search finds a cell that did not converge, the
\* console holds a line naming that cell and its resistance, whatever the
\* print_data and record flags of the call are
C25_FailedCellLine ==
    [][(pc = "report" /\ pc' = "done") =>
        \A k \in 1..Len(all_data') :
            ~all_data'[k].success =>
                \E l \in console' : /\ l.kind = "cell"
                                     /\ l.wl = all_data'[k].wl /\ l.bl = all_data'[k].bl
                                     /\ l.res = all_data'[k].res]_vars

MaxPWSteps == 2

\* searches of one wordline whose three sweeps all have points, the pulse
\* width sweep up to MaxPWSteps of them
NextDynSweep ==
    \/ /\ pc = "idle"
       /\ \E opn \in {"SET", "RESET"}, sel \in {0} \cup bls,
             a \in 1..MaxPWSteps, b \in 1..MaxVWL, c \in 1..MaxVL :
               DynCall(opn, sel, a, b, c, "free", ZeroRes)
    \/ DynPulse
    \/ DynReadAny
    \/ DynReport
    \/ DynReturn

SpecDynSweep == InitDynLog /\ [][NextDynSweep]_vars

\* C29: the pulses of a search go through the combinations in lexicographic
\* order, pulse width outermost, gate voltage in the middle, line voltage
\* innermost; every pulse is followed by one read before the next pulse; once
\* success holds after a read no pulse follows in that call
C29_LexicographicPulseOrder ==
    [][/\ pc' \in {"pulse", "read"} =>
            /\ i_pw' \in 1..n_pw' /\ i_vwl' \in 1..n_vwl' /\ i_vl' \in 1..n_vl'
            /\ (i_pw' - 1) * n_vwl' * n_vl' + (i_vwl' - 1) * n_vl' + i_vl'
                  = reads' + 1
       /\ pc' = "pulse" => pulses' = reads'
       /\ pc' = "read" => pulses' = reads' + 1
       /\ (pc = "read" /\ success') => pc' = "report"
       /\ (success /\ pc' # "idle") => (pulses' = pulses /\ reads' = reads)]_vars

C29_Witness ==
    /\ pc = "report" /\ success
    /\ n_pw = 2 /\ n_vwl = 2 /\ n_vl = 2
    /\ i_pw = 2 /\ i_vwl = 1 /\ i_vl = 2 /\ pulses = 6 /\ reads = 6

(***************************************************************************)
(* Properties of dynamic_set / dynamic_reset.                              *)
(***************************************************************************)
Cells == AllWLs \X AllBLs
InCall == pc \in {"pulse", "read", "report", "done", "raised"}

\* C2: within one call a mask entry that became false never becomes true
\* again, and each call starts from a freshly built mask, true exactly on
\* the addressed wordline x bitline cells.
C2_MaskMonotone ==
    [][ /\ InCall => \A c \in Cells : mask'[c[1]][c[2]] => mask[c[1]][c[2]]
        /\ (pc = "idle" /\ pc' # "idle") =>
              \A c \in Cells : mask'[c[1]][c[2]] <=> Addressed(c[1], c[2]) ]_vars

\* a second pulse has been read back while one cell is cleared and one is not
C2_Witness ==
    /\ pc = "pulse" /\ reads >= 2 /\ bl_selected = 0
    /\ \E c \in Cells : Addressed(c[1], c[2]) /\ ~mask[c[1]][c[2]]
    /\ \E c \in Cells : mask[c[1]][c[2]]

\* C37: in whole-array mode, a cell cleared from the mask earlier in a
\* dynamic_set / dynamic_reset call has its wordline bit and its bitline bit
\* together in no frame of a later waveform of the call, and a wordline whose
\* cells are all cleared has no frame at all: the waveform has pre-pulse and
\* main frames for the rows with a cell left, and for no other row.
C37_ClearedNotPulsed ==
    (pc = "read" /\ bl_selected = 0) =>
        LET WLBit(f, wl) == (f \div (2 ^ (NumWL - wl))) % 2 = 1
            BLBit(f, bl) == (f \div (2 ^ (NumWL + NumSL + NumBL - bl))) % 2 = 1
        IN  /\ \A wl \in wls, bl \in bls : ~mask[wl][bl] =>
                  \A k \in 1..Len(hw_waveform) :
                      ~(WLBit(hw_waveform[k], wl) /\ BLBit(hw_waveform[k], bl))
            /\ \A wl \in AllWLs : (\A bl \in AllBLs : ~mask[wl][bl]) =>
                  \A k \in 1..Len(hw_waveform) : ~WLBit(hw_waveform[k], wl)
            /\ Len(hw_waveform) =
                  Cardinality({wl \in wls : \E bl \in bls : mask[wl][bl]})
                      * (pargs.prepulse_len + pargs.pulse_len)

\* a later pulse of a call on two wordlines, one of them cleared by an
\* earlier read: the waveform has the frames of the other wordline only
C37_Witness ==
    /\ pc = "read" /\ bl_selected = 0 /\ pulses >= 2
    /\ \E w1 \in wls, w2 \in wls :
          /\ \A bl \in bls : ~mask[w1][bl]
          /\ \E bl \in bls : mask[w2][bl]
    /\ Len(hw_waveform) = pargs.prepulse_len + pargs.pulse_len
    /\ \E k \in 1..Len(hw_waveform) : hw_waveform[k] >= 2 ^ (NumWL + NumSL)

\* C38 (as claimed): in whole-array mode, whatever the reads return, the
\* success flag dynamic_set / dynamic_reset report for a cell is true exactly
\* when the cell was cleared from the mask during the call; when the search
\* ends with the mask fully cleared every cell is reported with success=true.
C38_SuccessIffCleared ==
    (pc = "done" /\ bl_selected = 0) =>
        /\ \A k \in 1..Len(all_data) :
              all_data[k].success <=> ~mask[all_data[k].wl][all_data[k].bl]
        /\ MaskSum(mask) = 0 => \A k \in 1..Len(all_data) : all_data[k].success

\* C40 (as claimed): dynamic_set / dynamic_reset end without raising, with
\* one result row per addressed (wordline, bitline) pair, for every sweep
\* configuration; when the sweep has no combination no pulse is issued and
\* every row has success=false.
C40_OneRowPerCell ==
    (pc \in {"done", "raised"}) =>
        /\ pc = "done"
        /\ Len(all_data) = Cardinality(wls) * Cardinality(bls)
        /\ \A wl \in wls, bl \in bls :
              Cardinality({k \in 1..Len(all_data) :
                              all_data[k].wl = wl /\ all_data[k].bl = bl}) = 1
        /\ NumCombos = 0 =>
              (pulses = 0 /\ \A k \in 1..Len(all_data) : ~all_data[k].success)

\* C4: against a stub whose resistances strictly decrease with each pulse,
\* dynamic_set issues no pulse once every cell is cleared, stops at the
\* first read that clears the last cell, and reports every cell as a success.
C4_DecreasingStops ==
    (stub = "decreasing" /\ op = "SET" /\ bl_selected = 0) =>
        /\ pc = "pulse" => MaskSum(mask) > 0
        /\ (pc \in {"report", "done"} /\ MaskSum(mask) = 0) =>
              /\ success /\ pulses = reads
              /\ \E wl \in wls, bl \in bls : res_array[wl][bl] = TargetRes
        /\ (pc = "done" /\ MaskSum(mask) = 0) =>
              /\ Len(all_data) = Cardinality(wls) * Cardinality(bls)
              /\ \A k \in 1..Len(all_data) : all_data[k].success

\* two cells converged at different pulses, before the sweep was exhausted
C4_Witness ==
    /\ pc = "done" /\ stub = "decreasing" /\ op = "SET" /\ bl_selected = 0
    /\ MaskSum(mask) = 0 /\ pulses = 2 /\ pulses < NumCombos
    /\ \E k \in 1..Len(all_data) : all_data[k].res < TargetRes

\* C5 (as claimed): when no read ever reaches the target, the search issues
\* one pulse and one read per sweep combination and returns normally, every
\* cell reported with success=false and its last measured value.
C5_ExhaustsAndReturns ==
    (pc \in {"done", "raised"} /\ never_hit) =>
        /\ pc = "done"
        /\ pulses = NumCombos /\ reads = NumCombos
        /\ Len(all_data) = Cardinality(wls) * Cardinality(bls)
        /\ \A k \in 1..Len(all_data) :
              /\ all_data[k].success = FALSE
              /\ all_data[k].res = res_array[all_data[k].wl][all_data[k].bl]

(***************************************************************************)
(* target(): the three copies, digitalpattern/nirram.py, nirram.py and     *)
(* ni_rram.py.  The ni_rram.py object addresses one cell and its read()    *)
(* returns scalars; the two array copies return per-cell collections.      *)
(***************************************************************************)
MaxAttempts == 2    \* max_attempts of target() / targeted_dynamic_set()
MaxSpan == 2        \* hi - lo of target()
DeviceFloor == 6000

Variants == {"digitalpattern", "nirram", "ni_rram"}
HasAsserts(v) == v \in {"digitalpattern", "nirram"}

\* the window test of the copy v
InWindow(v, l, h, r) ==
    IF v = "ni_rram" THEN l < r /\ r < h ELSE l <= r /\ r <= h

\* what `res, cond, meas_i, meas_v = self.read()` followed by
\* `if res > target_res_hi` raises in the copy v
ReadRaises(v) ==
    CASE v = "digitalpattern" -> "ValueError"
      [] v = "nirram" ->
            IF Cardinality(wls) * Cardinality(bls) = 4 THEN "TypeError" ELSE "ValueError"
      [] OTHER -> "none"

TargetLos == {DeviceFloor - 1, DeviceFloor}
TargetHis(l) == (l - 1)..(l + MaxSpan)
Readings == (lo - 1)..((IF hi < lo THEN lo ELSE hi) + 1)

InitTarget ==
    /\ InitCommon /\ InitDynVars /\ InitTargetLocals /\ InitTdsVars /\ InitEndVars
    /\ InitHost
    /\ t_variant \in Variants
    /\ wls \in SUBSET AllWLs /\ wls # {}
    /\ bls \in SUBSET AllBLs /\ bls # {}
    /\ t_variant = "ni_rram" => (wls = {1} /\ bls = {1})
    /\ sls = bls
    /\ pc = "idle"
    /\ mask = NewMask({}, {})

TargetIdle ==
    UNCHANGED <<cfgVars, mask, res_array, res_defined, hwVars, dynVars, tdsVars, endVars, logVars, measVars, utilVars,
                t_variant, plog, via_g>>

\* target(l, h, scheme, m, debug); g: the caller is target_g
TargetEnter(l, h, m, a, b, c, g) ==
    /\ pc = "idle"
    /\ via_g' = g /\ t_ret' = "none"
    /\ lo' = l /\ hi' = h /\ max_attempts' = m
    /\ attempt' = 0 /\ t_res' = 0 /\ t_res_defined' = FALSE /\ t_success' = FALSE
    /\ t_calls' = <<>> /\ alt' = TRUE
    /\ pulses' = 0 /\ reads' = 0
    /\ IF HasAsserts(t_variant) /\ (l < DeviceFloor \/ h < l)
       THEN pc' = "raised" /\ exc' = "AssertionError"
       ELSE /\ pc' = IF m = 0 THEN "t_log" ELSE "t_read"
            /\ exc' = "none"
    /\ n_vwl' = a /\ n_vl' = b /\ n_vsl' = c
    /\ UNCHANGED <<cfgVars, mask, res_array, res_defined, hwVars, tdsVars, endVars, logVars, measVars, utilVars,
                   t_variant, plog, op, bl_selected, n_pw, i_pw, i_vwl, i_vl, success,
                   all_data, stub, dev, never_hit>>

TargetCall(l, h, m, a, b, c) == TargetEnter(l, h, m, a, b, c, FALSE)

\* target_g(g_lo, g_hi, scheme, m, debug); a conductance is the pair <<n, r>>
\* standing for n/r siemens, so that 1/g is r \div n.  ni_rram.py has no
\* target_g.
TargetGCall(g_lo, g_hi, m, a, b, c) ==
    IF HasAsserts(t_variant) /\ g_lo[1] # 0 /\ g_hi[1] # 0
    THEN TargetEnter(g_hi[2] \div g_hi[1], g_lo[2] \div g_lo[1], m, a, b, c, TRUE)
    ELSE /\ pc = "idle"
         /\ pc' = "raised"
         /\ exc' = IF HasAsserts(t_variant) THEN "ZeroDivisionError" ELSE "AttributeError"
         /\ via_g' = TRUE /\ t_ret' = "none"
         /\ UNCHANGED <<lo, hi, max_attempts, attempt, t_res, t_res_defined, t_success,
                        t_calls, alt, n_vsl, pulses, reads, n_vwl, n_vl>>
         /\ UNCHANGED <<cfgVars, mask, res_array, res_defined, hwVars, tdsVars, endVars, logVars, measVars, utilVars,
                        t_variant, plog, op, bl_selected, n_pw, i_pw, i_vwl, i_vl,
                        success, all_data, stub, dev, never_hit>>

TargetRead(r) ==
    /\ pc = "t_read"
    /\ reads' = reads + 1
    /\ IF ReadRaises(t_variant) # "none"
       THEN /\ pc' = "raised" /\ exc' = ReadRaises(t_variant)
            /\ UNCHANGED <<t_res, t_res_defined, alt>>
       ELSE /\ t_res' = r /\ t_res_defined' = TRUE
            /\ alt' = (alt /\ (t_res_defined => r = t_res))
            /\ pc' = IF r > hi THEN "t_set" ELSE IF r < lo THEN "t_reset" ELSE "t_check"
            /\ exc' = "none"
    /\ UNCHANGED <<lo, hi, max_attempts, attempt, t_success, t_calls, n_vsl, pulses,
                   t_ret>>
    /\ TargetIdle

\* ni_rram.py dynamic_set(target_res_high): k gate voltages are tried, the
\* k-th read is the one returned
TargetSet(k, r) ==
    /\ pc = "t_set"
    /\ t_calls' = Append(t_calls, "SET")
    /\ IF n_vwl = 0
       THEN /\ pc' = "raised" /\ exc' = "UnboundLocalError"
            /\ UNCHANGED <<t_res, alt, pulses, reads>>
       ELSE /\ k \in 1..n_vwl
            /\ r <= hi \/ k = n_vwl
            /\ pulses' = pulses + k * n_vl /\ reads' = reads + k
            /\ t_res' = r
            /\ alt' = (alt /\ r <= hi)
            /\ pc' = IF r < lo THEN "t_reset" ELSE "t_check"
            /\ exc' = "none"
    /\ UNCHANGED <<lo, hi, max_attempts, attempt, t_res_defined, t_success, n_vsl, t_ret>>
    /\ TargetIdle

\* ni_rram.py dynamic_reset(target_res_low)
TargetReset(k, r) ==
    /\ pc = "t_reset"
    /\ t_calls' = Append(t_calls, "RESET")
    /\ IF n_vwl = 0
       THEN /\ pc' = "raised" /\ exc' = "UnboundLocalError"
            /\ UNCHANGED <<t_res, alt, pulses, reads>>
       ELSE /\ k \in 1..n_vwl
            /\ r >= lo \/ k = n_vwl
            /\ pulses' = pulses + k * n_vsl /\ reads' = reads + k
            /\ t_res' = r
            /\ alt' = (alt /\ r >= lo)
            /\ pc' = "t_check"
            /\ exc' = "none"
    /\ UNCHANGED <<lo, hi, max_attempts, attempt, t_res_defined, t_success, n_vsl, t_ret>>
    /\ TargetIdle

TargetCheck ==
    /\ pc = "t_check"
    /\ t_success' = InWindow(t_variant, lo, hi, t_res)
    /\ IF t_success' \/ attempt + 1 >= max_attempts
       THEN pc' = "t_log" /\ attempt' = attempt
       ELSE pc' = "t_read" /\ attempt' = attempt + 1
    /\ UNCHANGED <<lo, hi, max_attempts, t_res, t_res_defined, t_calls, alt, n_vsl,
                   pulses, reads, exc, t_ret>>
    /\ TargetIdle

\* the log lines of the array copies, then the return statement; target_g
\* calls target as a statement and ends without a return
TargetLog ==
    /\ pc = "t_log"
    /\ IF HasAsserts(t_variant)
       THEN pc' = "raised" /\ exc' = "AttributeError" /\ t_ret' = t_ret
       ELSE IF t_res_defined
            THEN /\ pc' = "done" /\ exc' = "none"
                 /\ t_ret' = IF via_g THEN "None" ELSE "tuple"
            ELSE pc' = "raised" /\ exc' = "UnboundLocalError" /\ t_ret' = t_ret
    /\ UNCHANGED <<lo, hi, max_attempts, attempt, t_res, t_res_defined, t_success,
                   t_calls, alt, n_vsl, pulses, reads>>
    /\ TargetIdle

TargetReturn ==
    /\ pc \in {"done", "raised"}
    /\ pc' = "idle" /\ exc' = "none"
    /\ lo' = 0 /\ hi' = 0 /\ max_attempts' = 0 /\ n_vsl' = 0
    /\ attempt' = 0 /\ t_res' = 0 /\ t_res_defined' = FALSE /\ t_success' = FALSE
    /\ t_calls' = <<>> /\ alt' = TRUE /\ pulses' = 0 /\ reads' = 0
    /\ n_vwl' = 0 /\ n_vl' = 0
    /\ via_g' = FALSE /\ t_ret' = "none"
    /\ UNCHANGED <<cfgVars, mask, res_array, res_defined, hwVars, tdsVars, endVars, logVars, measVars, utilVars,
                   t_variant, plog, op, bl_selected, n_pw, i_pw, i_vwl, i_vl, success,
                   all_data, stub, dev, never_hit>>

TargetCallAny ==
    /\ pc = "idle"
    /\ \E l \in TargetLos : \E h \in TargetHis(l) : \E m \in 0..MaxAttempts :
       \E a \in 0..MaxVWL, b \in 0..MaxVL, c \in 0..MaxVL : TargetCall(l, h, m, a, b, c)

\* the conductances 1/r of the window bounds, and 0
TargetGCallAny ==
    /\ pc = "idle"
    /\ \E l \in TargetLos : \E h \in TargetHis(l) : \E m \in 0..MaxAttempts :
       \E z \in {0, 1}, a \in 0..MaxVWL, b \in 0..MaxVL, c \in 0..MaxVL :
          TargetGCall(<<z, h>>, <<1, l>>, m, a, b, c)

TargetReadAny == pc = "t_read" /\ \E r \in Readings : TargetRead(r)
TargetSetAny == pc = "t_set" /\ \E k \in 1..MaxVWL, r \in Readings : TargetSet(k, r)
TargetResetAny == pc = "t_reset" /\ \E k \in 1..MaxVWL, r \in Readings : TargetReset(k, r)

NextTarget ==
    \/ TargetCallAny
    \/ TargetGCallAny
    \/ TargetReadAny
    \/ TargetSetAny
    \/ TargetResetAny
    \/ TargetCheck
    \/ TargetLog
    \/ TargetReturn

SpecTarget == InitTarget /\ [][NextTarget]_vars

(***************************************************************************)
(* Properties of target().                                                 *)
(***************************************************************************)
Alternates(calls) == \A k \in 1..(Len(calls) - 1) : calls[k] # calls[k + 1]
ValidWindow == lo >= DeviceFloor /\ hi >= lo

\* C6 (as claimed): for a device whose searches answer on the other side of
\* the window or inside it, target(lo, hi) reads without raising, invokes the
\* set and reset searches in alternation, and at the first attempt whose
\* resistance lies in [lo, hi], bounds included, stops with success=true and
\* issues no further read or pulse.
C6_AlternatesToWindow ==
    [][ (alt /\ ValidWindow) =>
          /\ pc = "t_read" => pc' # "raised"
          /\ Alternates(t_calls')
          /\ (pc = "t_check" /\ lo <= t_res /\ t_res <= hi) =>
                (t_success' /\ pc' = "t_log")
          /\ pc = "t_log" => (reads' = reads /\ pulses' = pulses) ]_vars

\* C7 (as claimed): with lo below the device floor or hi < lo, target()
\* raises before any read, pulse or log line.
C7_RaisesOnBadWindow ==
    (pc \notin {"idle"} /\ ~via_g /\ ~ValidWindow) =>
        /\ pc = "raised" /\ exc = "AssertionError"
        /\ reads = 0 /\ pulses = 0 /\ plog = 0

\* C17 (as claimed): a call target_g(g_lo, g_hi, ...) with 0 < g_lo <= g_hi
\* and 1/g_hi at or above the device floor runs target(1/g_hi, 1/g_lo, ...)
\* and hands the tuple target returns to its caller.
C17_TargetGReturnsTuple ==
    (via_g /\ HasAsserts(t_variant) /\ ValidWindow /\ pc \in {"done", "raised"}) =>
        /\ pc = "done"
        /\ t_ret = "tuple"

\* C30: in an attempt of target(lo, hi) target reads once and invokes at most
\* one search: the set search exactly when that read is above hi, the reset
\* search exactly when that read is below lo, none when it is in [lo, hi]
C30_OneSearchPerAttempt ==
    [][ValidWindow =>
          /\ (pc = "t_read" /\ pc' # "raised") =>
                /\ pc' = "t_set" <=> t_res' > hi
                /\ pc' = "t_reset" <=> t_res' < lo
                /\ pc' = "t_check" <=> (lo <= t_res' /\ t_res' <= hi)
          /\ pc' = "t_reset" => pc = "t_read"
          /\ pc' = "t_read" => (pc = "idle" \/ (pc = "t_check" /\ attempt' = attempt + 1)) ]_vars

\* C31 (as claimed): for every max_attempts >= 0, a call target(lo, hi) with
\* a valid window during which no resistance lands in [lo, hi] performs
\* max_attempts attempts, returns its tuple without raising, with
\* success=false and an attempt count below max_attempts, and has appended
\* one summary line to the program log.
C31_ExhaustsAttempts ==
    (/\ pc \in {"done", "raised"} /\ ~via_g /\ ValidWindow /\ ~t_success
     /\ t_res_defined => ~(lo <= t_res /\ t_res <= hi)) =>
        /\ pc = "done" /\ t_ret = "tuple"
        /\ max_attempts > 0 => attempt + 1 = max_attempts
        /\ attempt <= max_attempts
        /\ plog = 1

(***************************************************************************)
(* digitalpattern/nirram.py: targeted_dynamic_set, the coarse/fine search. *)
(* Voltages are integers; the coarse sweeps start at 1 with step 1 and the *)
(* fine sweeps have step +1.                                               *)
(***************************************************************************)
ResLow == 2             \* cfg["res_low"]
ResHighFine == 3        \* cfg["res_high_fine"]
ResHighCoarse == 4      \* cfg["res_high_coarse"]
FineWindowHigh == 0     \* cfg["VWL_fine_window_high"], cfg["VBL_fine_window_high"]
FineWindowLow == 1      \* cfg["VWL_fine_window_low"], cfg["VBL_fine_window_low"]

Abs(x) == IF x < 0 THEN -x ELSE x
Min(a, b) == IF a < b THEN a ELSE b

\* util.linear_sweep for a unit step: 1 + |stop - start| points from start to stop
LinearSweep(start, stop) ==
    [k \in 1..(1 + Abs(stop - start)) |->
        IF stop >= start THEN start + (k - 1) ELSE start - (k - 1)]

\* the fine sweep around the coarse solution v, clamped by the limit (step > 0)
FineSweep(v, limit) ==
    LinearSweep(v + FineWindowHigh, Min(v + FineWindowLow, limit))

\* resistances a read may return: below the floor, at the floor, at the fine
\* ceiling, at the coarse ceiling, above it
TdsReadVals == {ResLow - 1, ResLow, ResHighFine, ResHighCoarse, ResHighCoarse + 1}
TdsReadGrids == {AsGrid(f) : f \in [wls \X bls -> TdsReadVals]}

\* the ceiling of the running pass
PassCeiling(ph) == IF ph = "coarse" THEN ResHighCoarse ELSE ResHighFine

\* the wordlines the 1TNR loop visits before its break
Visited1TNR(m, res, ceil, sel) ==
    {wl \in wls : \A w2 \in wls : (w2 < wl) => ~(res[w2][sel] > ceil /\ m[w2][sel])}

\* if res_array.loc[wl_i, bl_i] <= res_low: failed_res_too_low = True
TooLow(m, res, ceil, sel) ==
    IF sel = 0
    THEN \E wl \in wls, bl \in bls : res[wl][bl] <= ResLow
    ELSE \E wl \in Visited1TNR(m, res, ceil, sel) : res[wl][sel] <= ResLow

\* if (res <= ceiling) & mask: mask = False
ClearBelow(m, res, ceil) ==
    [wl \in AllWLs |-> [bl \in AllBLs |->
        IF Addressed(wl, bl) /\ res[wl][bl] <= ceil /\ m[wl][bl] THEN FALSE ELSE m[wl][bl]]]

\* coarse_success / fine_success after one read
PassSuccess(m, res, ceil, sel) ==
    IF sel = 0
    THEN MaskSum(ClearBelow(m, res, ceil)) = 0
    ELSE ~ \E wl \in wls : res[wl][sel] > ceil /\ m[wl][sel]

\* mutant: the sweep goes on after an overshoot
PassBreak_SuccessOnly(succ, low) == succ

\* if coarse_success or failed_res_too_low: break
PassBreak(succ, low) == succ \/ low

\* mutant: the report tests the ceiling only
WindowSuccess_CeilingOnly(r) == r <= ResHighFine

\* cell_success of the final report
WindowSuccess(r) == r <= ResHighFine /\ r >= ResLow

\* sweep combinations of the searches of the initialization sequence
InitCombos == {0, 1}

\* points of the coarse sweeps (VWL, VBL) and the fine limits of the settings
CoarseSizes == {<<1, 1>>, <<2, 1>>, <<1, 2>>}
FineLimits == {1, 2}

\* the addressed cells: one cell, one row of two, one column of two
AddressedArrays == {<<{1}, {1}>>, <<{1}, {1, 2}>>, <<{1, 2}, {1}>>}

InitTds ==
    /\ InitOthers
    /\ \E a \in AddressedArrays : a[2] = {1} /\ wls = a[1] /\ bls = a[2]
    /\ sls = bls
    /\ pc = "idle"
    /\ mask = NewMask({}, {})

TdsFixed ==
    UNCHANGED <<cfgVars, hwVars, endVars, logVars, measVars, utilVars, op, n_pw, n_vwl, n_vl, i_pw,
                success, stub, dev, never_hit, bl_selected, nc_vwl, nc_vbl,
                vwl_fine_limit, vbl_fine_limit, max_attempts,
                t_variant, via_g, t_ret, lo, hi, t_res, t_res_defined, t_success, plog, t_calls,
                alt, n_vsl>>

\* targeted_dynamic_set(...) up to the attempt loop
TdsCall(m, sel, a, b, lw, lb, p) ==
    /\ pc = "idle"
    /\ max_attempts' = m /\ bl_selected' = sel
    /\ nc_vwl' = a /\ nc_vbl' = b
    /\ vwl_fine_limit' = lw /\ vbl_fine_limit' = lb
    /\ n_pw' = p
    /\ attempt' = 0 /\ inits' = 0 /\ fine_pulses' = 0
    /\ pulses' = 0 /\ reads' = 0 /\ exc' = "none"
    /\ res_array' = ZeroRes /\ res_defined' = FALSE /\ all_data' = <<>>
    /\ mask' = NewMask({}, {})
    /\ phase' = "coarse" /\ failed_res_too_low' = FALSE
    /\ coarse_success' = FALSE /\ fine_success' = FALSE
    /\ vwl_sweep' = <<>> /\ vbl_sweep' = <<>> /\ vwl' = 0 /\ vbl' = 0
    /\ i_vwl' = 0 /\ i_vl' = 0
    /\ pc' = IF m = 0 THEN "tds_report" ELSE "tds_init"
    /\ UNCHANGED <<cfgVars, hwVars, endVars, logVars, measVars, utilVars, op, n_vwl, n_vl, i_pw, success, stub, dev,
                   never_hit, t_variant, via_g, t_ret, lo, hi, t_res, t_res_defined, t_success, plog,
                   t_calls, alt, n_vsl>>

\* the initialization sequence (dynamic_reset, dynamic_set, dynamic_reset, each
\* over n_pw sweep combinations) and the set-up of the coarse pass; pulses and
\* reads count the primitives targeted_dynamic_set calls itself
TdsInit ==
    /\ pc = "tds_init"
    /\ IF n_pw = 0
       THEN /\ pc' = "raised" /\ exc' = "UnboundLocalError"
            /\ UNCHANGED <<inits, failed_res_too_low, mask, coarse_success,
                           phase, fine_pulses, vwl_sweep, vbl_sweep, vwl, vbl,
                           i_vwl, i_vl>>
       ELSE /\ inits' = inits + 1
            /\ failed_res_too_low' = FALSE
            /\ mask' = NewMask(wls, bls)
            /\ coarse_success' = FALSE
            /\ phase' = "coarse" /\ fine_pulses' = 0
            /\ vwl_sweep' = LinearSweep(1, nc_vwl) /\ vbl_sweep' = LinearSweep(1, nc_vbl)
            /\ i_vwl' = 1 /\ i_vl' = 1 /\ vwl' = 1 /\ vbl' = 1
            /\ pc' = "tds_pulse" /\ exc' = "none"
    /\ UNCHANGED <<attempt, res_array, res_defined, all_data, fine_success,
                   pulses, reads>>
    /\ TdsFixed

\* set_pulse(mask, vbl=vbl, vwl=vwl, ...)
TdsPulse ==
    /\ pc = "tds_pulse"
    /\ pulses' = pulses + 1
    /\ fine_pulses' = IF phase = "fine" THEN fine_pulses + 1 ELSE fine_pulses
    /\ pc' = "tds_read"
    /\ UNCHANGED <<attempt, res_array, res_defined, all_data, fine_success,
                   reads, inits, failed_res_too_low, mask, coarse_success, phase,
                   vwl_sweep, vbl_sweep, vwl, vbl, i_vwl, i_vl, exc>>
    /\ TdsFixed

\* `continue` / falling off the end of the attempt body
NextAttempt ==
    IF attempt + 1 < max_attempts
    THEN pc' = "tds_init" /\ attempt' = attempt + 1
    ELSE pc' = "tds_report" /\ attempt' = attempt

\* read_pulse(), the success condition, the break, and what follows the sweep
TdsRead(g) ==
    /\ pc = "tds_read"
    /\ reads' = reads + 1
    /\ res_array' = g /\ res_defined' = TRUE
    /\ LET ceil == PassCeiling(phase)
           low == failed_res_too_low \/ TooLow(mask, g, ceil, bl_selected)
           succ == PassSuccess(mask, g, ceil, bl_selected)
           cleared == IF bl_selected = 0 THEN ClearBelow(mask, g, ceil) ELSE mask
           more == i_vl < Len(vbl_sweep) \/ i_vwl < Len(vwl_sweep)
       IN  /\ failed_res_too_low' = low
           /\ coarse_success' = IF phase = "coarse" THEN succ ELSE coarse_success
           /\ fine_success' = IF phase = "fine" THEN succ ELSE fine_success
           /\ IF ~PassBreak(succ, low) /\ more
              THEN \* next combination of product(vwl_sweep, vbl_sweep)
                   /\ IF i_vl < Len(vbl_sweep)
                      THEN i_vl' = i_vl + 1 /\ i_vwl' = i_vwl
                      ELSE i_vl' = 1 /\ i_vwl' = i_vwl + 1
                   /\ vwl' = vwl_sweep[i_vwl'] /\ vbl' = vbl_sweep[i_vl']
                   /\ mask' = cleared
                   /\ pc' = "tds_pulse"
                   /\ UNCHANGED <<attempt, phase, vwl_sweep, vbl_sweep>>
              ELSE IF phase = "coarse" /\ ~low /\ succ
              THEN \* the fine window around (vwl, vbl) and a fresh mask
                   /\ vwl_sweep' = FineSweep(vwl, vwl_fine_limit)
                   /\ vbl_sweep' = FineSweep(vbl, vbl_fine_limit)
                   /\ i_vwl' = 1 /\ i_vl' = 1
                   /\ vwl' = vwl_sweep'[1] /\ vbl' = vbl_sweep'[1]
                   /\ mask' = NewMask(wls, bls)
                   /\ phase' = "fine"
                   /\ pc' = "tds_pulse"
                   /\ UNCHANGED attempt
              ELSE IF phase = "fine" /\ ~low /\ succ
              THEN \* break # SUCCESS
                   /\ pc' = "tds_report"
                   /\ mask' = cleared
                   /\ UNCHANGED <<attempt, phase, vwl_sweep, vbl_sweep, vwl, vbl, i_vwl, i_vl>>
              ELSE /\ NextAttempt
                   /\ mask' = cleared
                   /\ UNCHANGED <<phase, vwl_sweep, vbl_sweep, vwl, vbl, i_vwl, i_vl>>
    /\ UNCHANGED <<all_data, pulses, inits, fine_pulses, exc>>
    /\ TdsFixed

\* report final cell results
TdsReport ==
    /\ pc = "tds_report"
    /\ IF res_defined
       THEN /\ all_data' = [k \in 1..Len(CellSeq(wls, bls)) |->
                              LET wl == CellSeq(wls, bls)[k][1]
                                  bl == CellSeq(wls, bls)[k][2]
                              IN  [wl |-> wl, bl |-> bl, res |-> res_array[wl][bl],
                                   success |-> WindowSuccess(res_array[wl][bl])]]
            /\ pc' = "done" /\ exc' = "none"
       ELSE /\ all_data' = <<>>
            /\ pc' = "raised" /\ exc' = "UnboundLocalError"
    /\ UNCHANGED <<attempt, res_array, res_defined, fine_success,
                   pulses, reads, inits, failed_res_too_low, mask, coarse_success, phase,
                   fine_pulses, vwl_sweep, vbl_sweep, vwl, vbl, i_vwl, i_vl>>
    /\ TdsFixed

\* the caller takes the rows (or the exception); the locals are dropped
TdsReturn ==
    /\ pc \in {"done", "raised"}
    /\ pc' = "idle" /\ exc' = "none"
    /\ max_attempts' = 0 /\ bl_selected' = 0
    /\ nc_vwl' = 0 /\ nc_vbl' = 0 /\ vwl_fine_limit' = 0 /\ vbl_fine_limit' = 0
    /\ n_pw' = 0
    /\ attempt' = 0 /\ inits' = 0 /\ fine_pulses' = 0
    /\ pulses' = 0 /\ reads' = 0
    /\ res_array' = ZeroRes /\ res_defined' = FALSE /\ all_data' = <<>>
    /\ mask' = NewMask({}, {})
    /\ phase' = "coarse" /\ failed_res_too_low' = FALSE
    /\ coarse_success' = FALSE /\ fine_success' = FALSE
    /\ vwl_sweep' = <<>> /\ vbl_sweep' = <<>> /\ vwl' = 0 /\ vbl' = 0
    /\ i_vwl' = 0 /\ i_vl' = 0
    /\ UNCHANGED <<cfgVars, hwVars, endVars, logVars, measVars, utilVars, op, n_vwl, n_vl, i_pw, success, stub, dev,
                   never_hit, t_variant, via_g, t_ret, lo, hi, t_res, t_res_defined, t_success, plog,
                   t_calls, alt, n_vsl>>

TdsCallAny ==
    /\ pc = "idle"
    /\ \E m \in 0..MaxAttempts, sel \in {0} \cup bls, c \in CoarseSizes,
          lw \in FineLimits, lb \in FineLimits, p \in InitCombos :
            TdsCall(m, sel, c[1], c[2], lw, lb, p)

TdsReadAny == pc = "tds_read" /\ \E g \in TdsReadGrids : TdsRead(g)

NextTds ==
    \/ TdsCallAny
    \/ TdsInit
    \/ TdsPulse
    \/ TdsReadAny
    \/ TdsReport
    \/ TdsReturn

SpecTds == InitTds /\ [][NextTds]_vars

(***************************************************************************)
(* Properties of targeted_dynamic_set.                                     *)
(***************************************************************************)
\* C8: a coarse-pass read that raises the overshoot flag ends the coarse
\* sweep; no fine-pass pulse is issued in that attempt; the next attempt,
\* if one is left, runs the initialization and starts the coarse pass from
\* its first combination; the attempts started never exceed max_attempts.
C8_OvershootRestarts ==
    [][ /\ (pc = "tds_read" /\ phase = "coarse" /\ failed_res_too_low') =>
              /\ pc' = (IF attempt + 1 < max_attempts THEN "tds_init" ELSE "tds_report")
              /\ pc' = "tds_init" => attempt' = attempt + 1
              /\ phase' = "coarse" /\ fine_pulses' = 0
        /\ (pc = "tds_pulse" /\ phase = "fine") => ~failed_res_too_low
        /\ (pc = "tds_init" /\ pc' # "raised") =>
              /\ pc' = "tds_pulse" /\ phase' = "coarse" /\ inits' = inits + 1
              /\ i_vwl' = 1 /\ i_vl' = 1 /\ fine_pulses' = 0
        /\ inits' <= max_attempts' ]_vars

\* a second attempt is about to start after a coarse pass that overshot at
\* its first pulse, with combinations left in the sweep
C8_Witness ==
    /\ pc = "tds_init" /\ attempt = 1 /\ inits = 1
    /\ phase = "coarse" /\ failed_res_too_low /\ fine_pulses = 0
    /\ pulses = 1 /\ Len(vwl_sweep) * Len(vbl_sweep) > 1

\* C9: every cell that targeted_dynamic_set reports with success=true is
\* reported with a resistance r, res_low <= r <= res_high_fine.
C9_SuccessInsideWindow ==
    pc = "done" =>
        \A k \in 1..Len(all_data) :
            /\ all_data[k].res = res_array[all_data[k].wl][all_data[k].bl]
            /\ all_data[k].success =>
                  (ResLow <= all_data[k].res /\ all_data[k].res <= ResHighFine)

\* a call that ran a fine pass returned one cell inside the window and one
\* cell below the floor
C9_Witness ==
    /\ pc = "done" /\ max_attempts >= 1 /\ phase = "fine"
    /\ \E k \in 1..Len(all_data) : all_data[k].success
    /\ \E k \in 1..Len(all_data) : ~all_data[k].success /\ all_data[k].res < ResLow

\* C32 (as claimed): every pulse of the fine pass uses a gate voltage and a
\* line voltage that do not go beyond VWL_fine_limit and VBL_fine_limit in
\* the sweep direction (here upwards), whatever the coarse solution; the fine
\* window starts at the pair of the pulse that completed the coarse pass.
C32_FineWithinLimits ==
    [][ /\ (pc = "tds_pulse" /\ phase = "fine") =>
              (vwl <= vwl_fine_limit /\ vbl <= vbl_fine_limit)
        /\ (pc = "tds_read" /\ phase = "coarse" /\ phase' = "fine") =>
              (vwl' = vwl + FineWindowHigh /\ vbl' = vbl + FineWindowHigh) ]_vars

\* C33 (as claimed): in whole-array mode a read of targeted_dynamic_set
\* raises the overshoot flag when, and only when, a cell still active in the
\* mask reads below res_low; a cell reading exactly res_low, which the report
\* counts as inside the window, does not raise it.
C33_OvershootBelowFloor ==
    [][ (pc = "tds_read" /\ bl_selected = 0) =>
          (failed_res_too_low' <=>
              \E wl \in wls, bl \in bls : mask[wl][bl] /\ res_array'[wl][bl] < ResLow) ]_vars

(***************************************************************************)
(* digitalpattern/nirram.py: get_read_cycles and                           *)
(* endurance_dynamic_set_reset.                                            *)
(***************************************************************************)
MaxCycles == 3      \* max_cycles
MaxStep == 2        \* read_step_size of a schedule entry
MaxFailures == 3    \* max_failures

RECURSIVE ReadCyclesLoop_LateSwitch(_, _, _, _, _)
\* mutant: the next schedule entry is taken only after its start cycle is passed
ReadCyclesLoop_LateSwitch(mc, sch, n, idx, acc) ==
    IF n > mc THEN acc
    ELSE LET n2 == n + sch[idx][2]
             nxt == IF idx + 1 <= Len(sch) THEN idx + 1 ELSE Len(sch)
             idx2 == IF idx < Len(sch) /\ n2 > sch[nxt][1] THEN idx + 1 ELSE idx
         IN  ReadCyclesLoop_LateSwitch(mc, sch, n2, idx2, Append(acc, n))

RECURSIVE ReadCyclesLoop(_, _, _, _, _)
\* the while loop of get_read_cycles: n, schedule_idx and the list built so far
ReadCyclesLoop(mc, sch, n, idx, acc) ==
    IF n > mc THEN acc
    ELSE LET n2 == n + sch[idx][2]
             nxt == IF idx + 1 <= Len(sch) THEN idx + 1 ELSE Len(sch)
             idx2 == IF idx < Len(sch) /\ n2 >= sch[nxt][1] THEN idx + 1 ELSE idx
         IN  ReadCyclesLoop(mc, sch, n2, idx2, Append(acc, n))

\* mutant: the first step is taken before the first append
GetReadCycles_StepFirst(mc, sch) == ReadCyclesLoop(mc, sch, sch[1][2], 1, <<>>)

\* get_read_cycles(max_cycles, sweep_schedule)
GetReadCycles(mc, sch) == ReadCyclesLoop(mc, sch, 0, 1, <<>>)

\* list[::-1]
Reverse(q) == [k \in 1..Len(q) |-> q[Len(q) + 1 - k]]

\* list.pop() takes the last element
PopValue(q) == q[Len(q)]
PopRest(q) == SubSeq(q, 1, Len(q) - 1)

\* schedules of one or two (start_cycle, read_step_size) entries
Schedules ==
    {<<<<0, s>>>> : s \in 1..MaxStep} \cup
    {<<<<0, x[1]>>, <<x[2], x[3]>>>> : x \in (1..MaxStep) \X (1..MaxCycles) \X (1..MaxStep)}

\* the success column of the rows one search returns
Outcomes == [wls \X bls -> BOOLEAN]
AnySuccess(o) == \E c \in wls \X bls : o[c]
AnyFailure(o) == \E c \in wls \X bls : ~o[c]

\* mutant: the record point is tested with >
RecordPoint_After(c, nrc) == c > nrc

\* if cycle >= next_record_cycle
RecordPoint(c, nrc) == c >= nrc

\* check and accumulate failures
CycleFailed(foa, rs, ss) ==
    IF foa
    THEN (~AnySuccess(rs)) \/ (~AnySuccess(ss))
    ELSE AnyFailure(rs) \/ AnyFailure(ss)

InitEnd ==
    /\ InitOthers
    /\ \E a \in AddressedArrays : a[1] = {1} /\ wls = a[1] /\ bls = a[2]
    /\ sls = bls
    /\ pc = "idle"
    /\ mask = NewMask({}, {})

EndFixed ==
    UNCHANGED <<cfgVars, hwVars, targetVars, tdsVars, mask, res_array, res_defined,
                op, bl_selected, n_vwl, n_vl, i_pw, i_vwl, i_vl, success, all_data,
                stub, dev, never_hit, pulses, reads, next_read_cycles,
                logVars, measVars, utilVars>>

\* endurance_dynamic_set_reset(...) up to the while loop; p is the number of
\* sweep combinations of the two searches
EndCall(mc, sch, mf, foa, rec, p) ==
    /\ pc = "idle"
    /\ max_cycles' = mc /\ schedule' = sch /\ max_failures' = mf /\ fail_on_all' = foa
    /\ record' = rec
    /\ n_pw' = p
    /\ cycle' = 0
    /\ next_record_cycle' = PopValue(Reverse(GetReadCycles(mc, sch)))
    /\ next_record_cycles' = PopRest(Reverse(GetReadCycles(mc, sch)))
    /\ total_failures' = 0 /\ sequential_failures' = 0
    /\ cycles_run' = 0 /\ recorded' = {} /\ all_failed' = TRUE
    /\ data_reset' = <<>> /\ data_set' = <<>>
    /\ pc' = "end_cycle" /\ exc' = "none"
    /\ EndFixed

\* one pass of the while body: the reset search, the set search (rs, ss are
\* their success columns), the record point, the failure accounting
EndCycle(rs, ss) ==
    /\ pc = "end_cycle"
    /\ cycles_run' = cycles_run + 1
    /\ IF n_pw = 0
       THEN \* the search raises on its unbound res_array
            /\ pc' = "raised" /\ exc' = "UnboundLocalError"
            /\ all_failed' = FALSE
            /\ UNCHANGED <<cycle, next_record_cycles, next_record_cycle, total_failures,
                           sequential_failures, recorded, data_reset, data_set>>
       ELSE /\ data_reset' = rs /\ data_set' = ss
            /\ all_failed' = (all_failed /\ ~AnySuccess(rs) /\ ~AnySuccess(ss))
            /\ recorded' = IF RecordPoint(cycle, next_record_cycle) /\ record
                           THEN recorded \cup {cycle}
                           ELSE recorded
            /\ IF RecordPoint(cycle, next_record_cycle) /\ next_record_cycles = <<>>
               THEN \* next_record_cycles.pop() on the empty list
                    /\ pc' = "raised" /\ exc' = "IndexError"
                    /\ UNCHANGED <<cycle, next_record_cycles, next_record_cycle,
                                   total_failures, sequential_failures>>
               ELSE /\ IF RecordPoint(cycle, next_record_cycle)
                       THEN /\ next_record_cycle' = PopValue(next_record_cycles)
                            /\ next_record_cycles' = PopRest(next_record_cycles)
                       ELSE UNCHANGED <<next_record_cycle, next_record_cycles>>
                    /\ IF CycleFailed(fail_on_all, rs, ss)
                       THEN /\ total_failures' = total_failures + 1
                            /\ sequential_failures' = sequential_failures + 1
                       ELSE /\ total_failures' = total_failures
                            /\ sequential_failures' = 0
                    /\ IF sequential_failures' >= max_failures
                       THEN pc' = "done" /\ cycle' = cycle
                       ELSE /\ cycle' = cycle + 1
                            /\ pc' = IF cycle' <= max_cycles THEN "end_cycle" ELSE "done"
                    /\ exc' = "none"
    /\ UNCHANGED <<max_cycles, schedule, max_failures, fail_on_all, record, n_pw>>
    /\ EndFixed

\* the caller gets control back (or the exception)
EndReturn ==
    /\ pc \in {"done", "raised"}
    /\ pc' = "idle" /\ exc' = "none"
    /\ max_cycles' = 0 /\ schedule' = <<>> /\ max_failures' = 0 /\ fail_on_all' = TRUE
    /\ record' = TRUE
    /\ n_pw' = 0
    /\ cycle' = 0 /\ next_record_cycles' = <<>> /\ next_record_cycle' = 0
    /\ total_failures' = 0 /\ sequential_failures' = 0
    /\ cycles_run' = 0 /\ recorded' = {} /\ all_failed' = TRUE
    /\ data_reset' = <<>> /\ data_set' = <<>>
    /\ EndFixed

EndCallAny ==
    /\ pc = "idle"
    /\ \E mc \in 0..MaxCycles, sch \in Schedules, mf \in 1..MaxFailures,
          foa \in BOOLEAN, rec \in BOOLEAN, p \in InitCombos :
             EndCall(mc, sch, mf, foa, rec, p)

EndCycleAny == pc = "end_cycle" /\ \E rs \in Outcomes, ss \in Outcomes : EndCycle(rs, ss)

NextEnd ==
    \/ EndCallAny
    \/ EndCycleAny
    \/ EndReturn

SpecEnd == InitEnd /\ [][NextEnd]_vars

(***************************************************************************)
(* Properties of endurance_dynamic_set_reset.                              *)
(***************************************************************************)
\* C10 (as claimed): with 1 <= max_failures <= max_cycles + 1, when both
\* searches of every cycle fail for every cell, the run executes exactly
\* max_failures cycles and stops normally with total_failures = max_failures.
C10_StopsAfterMaxFailures ==
    (pc \in {"done", "raised"} /\ all_failed
       /\ 1 <= max_failures /\ max_failures <= max_cycles + 1) =>
        /\ pc = "done"
        /\ cycles_run = max_failures
        /\ total_failures = max_failures

\* C11 (as claimed): with fail_on_all, a cycle is counted as a failure exactly
\* when every addressed cell failed its reset search and every addressed cell
\* failed its set search in that cycle (stated for the cycles whose accounting
\* is reached).
C11_FailOnAllCountsBoth ==
    [][(pc = "end_cycle" /\ fail_on_all /\ pc' \in {"end_cycle", "done"}) =>
          ((total_failures' = total_failures + 1) <=>
              (~AnySuccess(data_reset') /\ ~AnySuccess(data_set')))]_vars

\* C12 (as claimed): without fail_on_all, a cycle is counted as a failure
\* exactly when at least one addressed cell failed its reset search or its set
\* search in that cycle (stated for every cycle whose two searches returned).
C12_FailOnAnyCountsEither ==
    [][(pc = "end_cycle" /\ ~fail_on_all /\ exc' # "UnboundLocalError") =>
          ((total_failures' = total_failures + 1) <=>
              (AnyFailure(data_reset') \/ AnyFailure(data_set')))]_vars

\* C13 (as claimed): when the consecutive failures never reach max_failures,
\* the run executes the reset and set searches once for each cycle
\* 0..max_cycles and then returns normally, whatever the schedule (the searches
\* have at least one sweep combination).
C13_RunsToMaxCycles ==
    (pc \in {"done", "raised"} /\ n_pw > 0 /\ sequential_failures < max_failures) =>
        /\ pc = "done"
        /\ cycles_run = max_cycles + 1

\* C35 (as claimed): every cycle of endurance_dynamic_set_reset whose two
\* searches returned adds one to total_failures and to sequential_failures
\* when it failed and sets sequential_failures to 0 when it did not, so that
\* 0 <= sequential_failures <= total_failures; and the run stops before
\* cycle max_cycles exactly at the cycle where sequential_failures reaches
\* max_failures.
C35_FailureCounters ==
    [][ (pc = "end_cycle" /\ n_pw > 0) =>
          LET failed == CycleFailed(fail_on_all, data_reset', data_set')
          IN  /\ total_failures' = total_failures + (IF failed THEN 1 ELSE 0)
              /\ sequential_failures' = (IF failed THEN sequential_failures + 1 ELSE 0)
              /\ 0 <= sequential_failures' /\ sequential_failures' <= total_failures'
              /\ sequential_failures < max_failures
              /\ (pc' # "end_cycle" /\ cycle < max_cycles) <=>
                    (sequential_failures' >= max_failures /\ cycle < max_cycles) ]_vars

\* membership in a list
InList(x, q) == \E k \in 1..Len(q) : q[k] = x

\* the cycles of the running call whose two searches returned their rows
CyclesWithRows ==
    0..((IF exc = "UnboundLocalError" THEN cycles_run - 1 ELSE cycles_run) - 1)

ValidSchedules ==
    {q \in UNION {[1..k -> (0..MaxCycles) \X (1..MaxStep)] : k \in 1..3} :
        \A i \in 1..(Len(q) - 1) : q[i][1] < q[i + 1][1]}

\* the example of the docstring, up to 25 cycles
DocSchedule == <<<<0, 1>>, <<10, 10>>>>

CycleInputs ==
    ((0..MaxCycles) \X ValidSchedules) \cup {<<25, DocSchedule>>}

InitCycles ==
    /\ InitOthers
    /\ wls = {1} /\ bls = {1}
    /\ sls = bls
    /\ pc = "idle"
    /\ mask = NewMask({}, {})

CyclesFixed ==
    UNCHANGED <<cfgVars, hwVars, dynVars, targetVars, tdsVars, exc, mask, res_array,
                res_defined, pulses, reads, max_failures, fail_on_all, record, cycle,
                next_record_cycles, next_record_cycle, total_failures,
                sequential_failures, cycles_run, recorded, all_failed, data_reset,
                data_set, logVars, measVars, utilVars>>

\* NIRRAM.get_read_cycles(mc, sch): a static method, no object is involved
CyclesCall(mc, sch) ==
    /\ pc = "idle"
    /\ max_cycles' = mc /\ schedule' = sch
    /\ next_read_cycles' = GetReadCycles(mc, sch)
    /\ pc' = "cycles_done"
    /\ CyclesFixed

\* the caller took the list
CyclesReturn ==
    /\ pc = "cycles_done"
    /\ pc' = "idle"
    /\ max_cycles' = 0 /\ schedule' = <<>> /\ next_read_cycles' = <<>>
    /\ CyclesFixed

CyclesCallAny == pc = "idle" /\ \E x \in CycleInputs : CyclesCall(x[1], x[2])

NextCycles ==
    \/ CyclesCallAny
    \/ CyclesReturn

SpecCycles == InitCycles /\ [][NextCycles]_vars

\* C15: get_read_cycles(25, [(0, 1), (10, 10)]) returns
\* [0, 1, 2, 3, 4, 5, 6, 7, 8, 9, 10, 20].
C15_DocExample ==
    (pc = "cycles_done" /\ max_cycles = 25 /\ schedule = DocSchedule) =>
        next_read_cycles = <<0, 1, 2, 3, 4, 5, 6, 7, 8, 9, 10, 20>>

C15_Witness ==
    /\ pc = "cycles_done" /\ max_cycles = 25 /\ schedule = DocSchedule
    /\ Len(next_read_cycles) = 12

\* C16: for max_cycles >= 0 and a schedule with increasing start cycles and
\* positive steps, get_read_cycles returns a strictly increasing list that
\* starts with 0 and stays at or below max_cycles, and it leaves the data
\* file, the logs and the instrument alone.
C16_IncreasingFromZero ==
    (pc = "cycles_done") =>
        /\ Len(next_read_cycles) >= 1
        /\ next_read_cycles[1] = 0
        /\ \A k \in 1..(Len(next_read_cycles) - 1) :
              next_read_cycles[k] < next_read_cycles[k + 1]
        /\ \A k \in 1..Len(next_read_cycles) : next_read_cycles[k] <= max_cycles
        /\ recorded = {} /\ plog = 0 /\ pulses = 0 /\ reads = 0

\* a list whose step changed at the start cycle of the second entry
C16_Witness ==
    /\ pc = "cycles_done" /\ Len(schedule) >= 2 /\ schedule[1][1] # 0
    /\ schedule[1][2] # schedule[2][2]
    /\ \E i \in 1..(Len(next_read_cycles) - 2) :
          /\ next_read_cycles[i + 1] - next_read_cycles[i] = schedule[1][2]
          /\ next_read_cycles[i + 1] >= schedule[2][1]
          /\ next_read_cycles[i + 2] - next_read_cycles[i + 1] = schedule[2][2]

\* C34 (as claimed): in the list get_read_cycles returns, every checkpoint c
\* other than the last is followed by c + step_size, where step_size is that
\* of the schedule entry with the greatest start cycle <= c (the first entry
\* if there is none), also when one step passes more than one start cycle.
C34_ActiveStep ==
    (pc = "cycles_done") =>
        \A k \in 1..(Len(next_read_cycles) - 1) :
            LET c == next_read_cycles[k]
                reached == {i \in 1..Len(schedule) : schedule[i][1] <= c}
                active == IF reached = {} THEN 1
                          ELSE CHOOSE i \in reached : \A i2 \in reached : i2 <= i
            IN  next_read_cycles[k + 1] = c + schedule[active][2]

(***************************************************************************)
(* autoprobe/cascade.py: Measurement, the unit a script wraps around its   *)
(* searches (scripts/autoprobe_pulse.py).  The body of the with statement  *)
(* runs searches; each search is pulse/read pairs followed by its report.  *)
(***************************************************************************)
MaxUnits == 2
MaxSearches == 2
MaxPairs == 2
MaxSigints == 2

BodyPcs == {"m_pulse", "m_read", "m_report"}

\* mutant: the handler leaves the flag as it was
abort_measurement_Ignored(flag) == flag

\* Measurement.__init__.abort_measurement: the handler only sets the flag
abort_measurement(flag) == TRUE

InitMeas ==
    /\ InitOthers
    /\ wls = {1} /\ bls = {1}
    /\ sls = bls
    /\ pc = "outside"
    /\ mask = NewMask({}, {})

MeasFixed ==
    UNCHANGED <<cfgVars, hwVars, dynVars, targetVars, tdsVars, endVars, logVars,
                utilVars, mask, res_array, res_defined>>

\* probe.start_measurement() and __enter__: the handler is installed, the
\* flag cleared; n is the number of searches of the body
MeasStart(n) ==
    /\ pc = "outside" /\ units < MaxUnits
    /\ abort_after_measurement' = FALSE
    /\ sigint_handler' = "abort_measurement"
    /\ searches_left' = n /\ pair' = 1
    /\ pulses' = 0 /\ reads' = 0 /\ rows' = 0
    /\ body_exc' = "none" /\ sig_in_body' = FALSE
    /\ pc' = "m_pulse"
    /\ UNCHANGED <<exc, abort_calls, sigints, units>>
    /\ MeasFixed

\* the pulse of a search; fault: the hardware primitive raises
MeasPulse(fault) ==
    /\ pc = "m_pulse"
    /\ pulses' = pulses + 1
    /\ IF fault
       THEN body_exc' = "HardwareFault" /\ pc' = "m_exit"
       ELSE body_exc' = body_exc /\ pc' = "m_read"
    /\ UNCHANGED <<exc, reads, rows, abort_after_measurement, sigint_handler,
                   abort_calls, sig_in_body, sigints, units, searches_left, pair>>
    /\ MeasFixed

\* the read of a search; more: the success condition failed and a
\* combination is left
MeasRead(fault, more) ==
    /\ pc = "m_read"
    /\ more => pair < MaxPairs
    /\ reads' = reads + 1
    /\ IF fault
       THEN body_exc' = "HardwareFault" /\ pc' = "m_exit" /\ pair' = pair
       ELSE /\ body_exc' = body_exc
            /\ IF more THEN pc' = "m_pulse" /\ pair' = pair + 1
                       ELSE pc' = "m_report" /\ pair' = pair
    /\ UNCHANGED <<exc, pulses, rows, abort_after_measurement, sigint_handler,
                   abort_calls, sig_in_body, sigints, units, searches_left>>
    /\ MeasFixed

\* the report of a search (record=True); the body goes on or ends
MeasReport ==
    /\ pc = "m_report"
    /\ rows' = rows + 1
    /\ searches_left' = searches_left - 1
    /\ pair' = 1
    /\ pc' = IF searches_left' = 0 THEN "m_exit" ELSE "m_pulse"
    /\ UNCHANGED <<exc, pulses, reads, body_exc, abort_after_measurement,
                   sigint_handler, abort_calls, sig_in_body, sigints, units>>
    /\ MeasFixed

\* SIGINT is delivered: the installed handler runs between two bytecodes
Sigint ==
    /\ pc \in BodyPcs \cup {"outside", "m_exit", "m_check"}
    /\ sigints < MaxSigints
    /\ sigints' = sigints + 1
    /\ IF sigint_handler = "abort_measurement"
       THEN /\ abort_after_measurement' = abort_measurement(abort_after_measurement)
            /\ sig_in_body' = (sig_in_body \/ pc \in BodyPcs)
            /\ UNCHANGED <<pc, exc>>
       ELSE /\ pc' = "raised" /\ exc' = "KeyboardInterrupt"
            /\ UNCHANGED <<abort_after_measurement, sig_in_body>>
    /\ UNCHANGED <<pulses, reads, rows, body_exc, sigint_handler, abort_calls, units,
                   searches_left, pair>>
    /\ MeasFixed

\* Measurement.__exit__, first statement: the original handler is restored
MeasExitRestore ==
    /\ pc = "m_exit"
    /\ sigint_handler' = "original"
    /\ pc' = "m_check"
    /\ UNCHANGED <<exc, pulses, reads, rows, body_exc, abort_after_measurement,
                   abort_calls, sig_in_body, sigints, units, searches_left, pair>>
    /\ MeasFixed

\* Measurement.__exit__, the test of the flag: abort_handler() and exit(0),
\* else the exception of the body (if any) goes on to the caller
MeasExitCheck ==
    /\ pc = "m_check"
    /\ IF abort_after_measurement
       THEN /\ abort_calls' = abort_calls + 1
            /\ pc' = "exited" /\ exc' = "SystemExit"
            /\ units' = units
       ELSE /\ abort_calls' = abort_calls
            /\ IF body_exc # "none"
               THEN pc' = "raised" /\ exc' = body_exc /\ units' = units
               ELSE pc' = "outside" /\ exc' = exc /\ units' = units + 1
    /\ UNCHANGED <<pulses, reads, rows, body_exc, abort_after_measurement,
                   sigint_handler, sig_in_body, sigints, searches_left, pair>>
    /\ MeasFixed

NextMeas ==
    \/ \E n \in 1..MaxSearches : MeasStart(n)
    \/ \E fault \in BOOLEAN : MeasPulse(fault)
    \/ \E fault, more \in BOOLEAN : MeasRead(fault, more)
    \/ MeasReport
    \/ Sigint
    \/ MeasExitRestore
    \/ MeasExitCheck

SpecMeas == InitMeas /\ [][NextMeas]_vars

\* C23: when a pulse or read primitive raises, the search issues no further
\* pulse or read and records no row, and the error the primitive raised is
\* the one that leaves the measurement unit, interrupt received or not
C23_FaultReachesCaller ==
    [][(body_exc # "none") =>
        /\ pulses' = pulses /\ reads' = reads /\ rows' = rows
        /\ (pc = "m_check" /\ pc' \in {"raised", "exited"} /\ sigints' = sigints)
              => exc' = body_exc]_vars

\* C24: a SIGINT that arrives while the body executes changes nothing but the
\* flag; the body stops only where it ends or raises; the abort handler is
\* called once, at the end of an interrupted unit, and the run exits there;
\* without an interrupt it is never called
C24_CooperativeCancel ==
    [][/\ (pc \in BodyPcs /\ sigints' = sigints + 1) =>
            /\ pc' = pc
            /\ UNCHANGED <<pulses, reads, rows, searches_left, pair, body_exc, exc,
                           abort_calls>>
       /\ (pc \in BodyPcs /\ pc' = "m_exit") =>
            (body_exc' # "none" \/ searches_left' = 0)
       /\ abort_calls' # abort_calls => (pc = "m_check" /\ pc' = "exited")
       /\ (pc = "m_check" /\ sig_in_body /\ sigints' = sigints) =>
            (abort_calls' = 1 /\ pc' = "exited" /\ exc' = "SystemExit")
       /\ abort_calls' <= 1
       /\ sigints' = 0 => abort_calls' = 0]_vars

C24_Witness ==
    /\ pc = "exited" /\ sig_in_body /\ abort_calls = 1
    /\ body_exc = "none" /\ searches_left = 0 /\ rows = MaxSearches

(***************************************************************************)
(* digitalpattern/util.py.  Numbers are integers; a point of a sweep is a  *)
(* fraction <<numerator, denominator>>.  log10_sweep is given powers of    *)
(* ten: its start, stop, step and its points are exponents of ten.         *)
(***************************************************************************)
MaxVal == 2
MaxExp == 3
MaxSweep == 3
MaxSweepStep == 2
MaxPoints == 3

Members == {"EQUALS", "LESS", "LESS_OR_EQUALS", "GREATER", "GREATER_OR_EQUALS"}

\* mutant: LESS_OR_EQUALS answers with the strict relation
Comparison_StrictLe(member, a, b) ==
    IF member = "EQUALS" THEN a = b
    ELSE IF member = "LESS" THEN a < b
    ELSE IF member = "LESS_OR_EQUALS" THEN a < b
    ELSE IF member = "GREATER" THEN a > b
    ELSE a >= b

\* Comparison.__call__
Comparison(member, a, b) ==
    IF member = "EQUALS" THEN a = b
    ELSE IF member = "LESS" THEN a < b
    ELSE IF member = "LESS_OR_EQUALS" THEN a <= b
    ELSE IF member = "GREATER" THEN a > b
    ELSE a >= b

\* int(abs(round(n / d))): Python rounds a tie to the even neighbour
AbsRound(n, d) ==
    LET an == IF n < 0 THEN -n ELSE n
        ad == IF d < 0 THEN -d ELSE d
        q  == an \div ad
        r  == an % ad
    IN  IF 2 * r < ad THEN q
        ELSE IF 2 * r > ad THEN q + 1
        ELSE IF q % 2 = 0 THEN q ELSE q + 1

\* np.linspace(start, stop, n), endpoint included
linspace(start, stop, n) ==
    [i \in 1..n |-> IF n = 1 THEN <<start, 1>>
                    ELSE <<start * (n - 1) + (i - 1) * (stop - start), n - 1>>]

\* mutant: the number of points lacks the 1 of the endpoint
linear_sweep_NoEndpoint(v) ==
    IF v.kind = "num" THEN <<<<v.a, 1>>>>
    ELSE IF v.kind = "list" THEN v.list
    ELSE linspace(v.a, v.b, AbsRound(v.b - v.a, v.step))

\* linear_sweep(v) for a number, a list and a start/stop/step dict
linear_sweep(v) ==
    IF v.kind = "num" THEN <<<<v.a, 1>>>>
    ELSE IF v.kind = "list" THEN v.list
    ELSE linspace(v.a, v.b, 1 + AbsRound(v.b - v.a, v.step))

\* log10_sweep(v) for a number, a list, a dict with "step" and one with "steps"
log10_sweep(v) ==
    IF v.kind = "num" THEN <<<<v.a, 1>>>>
    ELSE IF v.kind = "list" THEN v.list
    ELSE IF v.kind = "step"
         THEN linspace(v.a, v.b, 1 + AbsRound(v.b - v.a, v.step))
         ELSE linspace(v.a, v.b, v.steps)

UtilFixed ==
    UNCHANGED <<cfgVars, hwVars, dynVars, targetVars, tdsVars, endVars, logVars,
                measVars, mask, res_array, res_defined, pulses, reads>>

\* Comparison.<member>(a, b)
ComparisonCall(member, a, b) ==
    /\ pc = "idle"
    /\ u_arg' = CallArg("Comparison", member, a, b, 0, 0, <<>>)
    /\ u_ret' = [flag |-> Comparison(member, a, b), points |-> <<>>]
    /\ pc' = "u_done" /\ exc' = exc
    /\ UtilFixed

\* linear_sweep(v); any other type of v raises ValueError
LinearSweepCall(v) ==
    /\ pc = "idle"
    /\ v.fn = "linear_sweep"
    /\ u_arg' = v
    /\ IF v.kind \in {"num", "list", "dict"}
       THEN u_ret' = [flag |-> FALSE, points |-> linear_sweep(v)] /\ pc' = "u_done" /\ exc' = exc
       ELSE u_ret' = [flag |-> FALSE, points |-> <<>>] /\ pc' = "raised" /\ exc' = "ValueError"
    /\ UtilFixed

\* log10_sweep(v); a dict without "step" and "steps", or another type, raises
Log10SweepCall(v) ==
    /\ pc = "idle"
    /\ v.fn = "log10_sweep"
    /\ u_arg' = v
    /\ IF v.kind \in {"num", "list", "step", "steps"}
       THEN u_ret' = [flag |-> FALSE, points |-> log10_sweep(v)] /\ pc' = "u_done" /\ exc' = exc
       ELSE u_ret' = [flag |-> FALSE, points |-> <<>>] /\ pc' = "raised" /\ exc' = "ValueError"
    /\ UtilFixed

\* the caller takes the result
UtilReturn ==
    /\ pc \in {"u_done", "raised"}
    /\ u_arg' = NoCall /\ u_ret' = [flag |-> FALSE, points |-> <<>>]
    /\ pc' = "idle" /\ exc' = "none"
    /\ UtilFixed

LinearArgs ==
    {CallArg("linear_sweep", "dict", a, b, c, 0, <<>>) :
        a \in 0..MaxSweep, b \in 0..MaxSweep,
        c \in ((0 - MaxSweepStep)..MaxSweepStep) \ {0}}
    \cup {CallArg("linear_sweep", "num", a, 0, 0, 0, <<>>) : a \in 0..MaxSweep}
    \cup {CallArg("linear_sweep", "list", 0, 0, 0, 0, l) : l \in {<<>>, <<<<2, 1>>, <<1, 1>>>>}}
    \cup {CallArg("linear_sweep", "str", 0, 0, 0, 0, <<>>)}

Log10Args ==
    {CallArg("log10_sweep", "step", a, b, c, 0, <<>>) :
        a \in 0..MaxExp, b \in 0..MaxExp, c \in 1..MaxExp}
    \cup {CallArg("log10_sweep", "steps", a, b, 0, n, <<>>) :
        a \in 0..MaxExp, b \in 0..MaxExp, n \in 1..MaxPoints}
    \cup {CallArg("log10_sweep", "num", a, 0, 0, 0, <<>>) : a \in 0..MaxExp}
    \cup {CallArg("log10_sweep", "list", 0, 0, 0, 0, l) : l \in {<<>>, <<<<2, 1>>, <<1, 1>>>>}}
    \cup {CallArg("log10_sweep", "dict", a, b, 0, 0, <<>>) : a \in {0}, b \in {MaxExp}}

NextUtil ==
    \/ \E member \in Members, a \in 0..MaxVal, b \in 0..MaxVal : ComparisonCall(member, a, b)
    \/ \E v \in LinearArgs : LinearSweepCall(v)
    \/ \E v \in Log10Args : Log10SweepCall(v)
    \/ UtilReturn

\* no state of the object is involved: the functions are called on an idle one
SpecUtil == InitCycles /\ [][NextUtil]_vars

\* C26: a Comparison member called on a and b returns its relation of a and b;
\* LESS is the negation of GREATER_OR_EQUALS, GREATER that of LESS_OR_EQUALS
C26_ComparisonRelations ==
    (pc = "u_done" /\ u_arg.fn = "Comparison") =>
        LET a == u_arg.a
            b == u_arg.b
        IN  /\ u_arg.kind = "EQUALS" => (u_ret.flag <=> a = b)
            /\ u_arg.kind = "LESS" => (u_ret.flag <=> a < b)
            /\ u_arg.kind = "LESS_OR_EQUALS" => (u_ret.flag <=> (a < b \/ a = b))
            /\ u_arg.kind = "GREATER" => (u_ret.flag <=> b < a)
            /\ u_arg.kind = "GREATER_OR_EQUALS" => (u_ret.flag <=> (b < a \/ a = b))
            /\ Comparison("LESS", a, b) = ~Comparison("GREATER_OR_EQUALS", a, b)
            /\ Comparison("GREATER", a, b) = ~Comparison("LESS_OR_EQUALS", a, b)

C26_Witness ==
    /\ pc = "u_done" /\ u_arg.fn = "Comparison"
    /\ u_arg.kind = "LESS_OR_EQUALS" /\ u_arg.a = u_arg.b /\ u_ret.flag = TRUE

\* C27: log10_sweep of a dict with "steps": n returns n + 1 points, the first
\* the start and the last the stop; when the n steps are decades it is the
\* list the dict with "step": 10 gives
C27_StepsPlusOnePoints ==
    (pc = "u_done" /\ u_arg.fn = "log10_sweep" /\ u_arg.kind = "steps"
        /\ u_arg.a < u_arg.b) =>
        LET n == Len(u_ret.points)
        IN  /\ n = u_arg.steps + 1
            /\ u_ret.points[1][1] = u_arg.a * u_ret.points[1][2]
            /\ u_ret.points[n][1] = u_arg.b * u_ret.points[n][2]
            /\ u_arg.steps = u_arg.b - u_arg.a =>
                  u_ret.points =
                      log10_sweep(CallArg("log10_sweep", "step", u_arg.a, u_arg.b, 1, 0, <<>>))

IsDictCall == pc = "u_done" /\ u_arg.fn = "linear_sweep" /\ u_arg.kind = "dict"

ClearCompared(m, res, member) ==
    [wl \in AllWLs |-> [bl \in AllBLs |->
        IF Addressed(wl, bl) /\ m[wl][bl] /\ Comparison(member, res[wl][bl], TargetRes)
        THEN FALSE ELSE m[wl][bl]]]

\* dynamic_pulse_for_multibit(mode, res_compare_op, ...) up to the first pulse:
\* the initial read g, the mask, the sweeps (a pulse widths, b gate voltages,
\* c source line voltages)
MbCall(member, a, b, c, g) ==
    /\ pc = "idle"
    /\ op' = member /\ bl_selected' = 0
    /\ n_pw' = a /\ n_vwl' = b /\ n_vl' = c
    /\ stub' = "free" /\ dev' = ZeroRes
    /\ reads' = 1 /\ pulses' = 0
    /\ res_array' = g /\ res_defined' = TRUE
    /\ mask' = ClearCompared(NewMask(wls, bls), g, member)
    /\ success' = (MaskSum(mask') = 0)
    /\ all_data' = <<>> /\ exc' = "none" /\ never_hit' = TRUE
    /\ IF ~success' /\ a >= 1
       THEN i_pw' = 1 /\ i_vwl' = 1 /\ i_vl' = 1 /\ pc' = "pulse"
       ELSE i_pw' = 0 /\ i_vwl' = 0 /\ i_vl' = 0 /\ pc' = "report"
    /\ console' = {} /\ datafile' = <<>>
    /\ UNCHANGED <<cfgVars, hwVars, targetVars, tdsVars, endVars, print_data, d_record,
                   measVars, utilVars>>

\* the return of reset_pulse, then read_pulse(), the mask update and the
\* three breaks; pw is the innermost loop, vwl the outermost
MbRead(g) ==
    /\ pc = "read"
    /\ reads' = reads + 1
    /\ res_array' = g /\ res_defined' = TRUE
    /\ mask' = ClearCompared(mask, g, op)
    /\ success' = (MaskSum(mask') = 0)
    /\ IF success' THEN
            /\ pc' = "report" /\ UNCHANGED <<i_pw, i_vwl, i_vl>>
       ELSE IF i_pw < n_pw THEN
            /\ pc' = "pulse" /\ i_pw' = i_pw + 1 /\ UNCHANGED <<i_vwl, i_vl>>
       ELSE IF i_vl < n_vl THEN
            /\ pc' = "pulse" /\ i_pw' = 1 /\ i_vl' = i_vl + 1 /\ UNCHANGED i_vwl
       ELSE IF i_vwl < n_vwl THEN
            /\ pc' = "pulse" /\ i_pw' = 1 /\ i_vl' = 1 /\ i_vwl' = i_vwl + 1
       ELSE /\ pc' = "report" /\ UNCHANGED <<i_pw, i_vwl, i_vl>>
    /\ hw_waveform' = <<>> /\ pargs' = NoArgs
    /\ UNCHANGED <<cfgVars, pw_register, exc, pulses, op, bl_selected, n_pw, n_vwl, n_vl,
                   all_data, stub, dev, never_hit, targetVars, tdsVars, endVars,
                   logVars, measVars, utilVars>>

\* record final cell results: cell_data reads the loop variables vwl, vsl and
\* pw, which are bound only once the innermost loop body has run
MbReport ==
    /\ pc = "report"
    /\ IF i_pw >= 1
       THEN /\ all_data' = [k \in 1..Len(CellSeq(wls, bls)) |->
                              LET wl == CellSeq(wls, bls)[k][1]
                                  bl == CellSeq(wls, bls)[k][2]
                              IN  [wl |-> wl, bl |-> bl, res |-> res_array[wl][bl],
                                   success |-> Comparison(op, res_array[wl][bl], TargetRes)]]
            /\ pc' = "done" /\ exc' = exc
       ELSE /\ all_data' = <<>>
            /\ pc' = "raised" /\ exc' = "UnboundLocalError"
    /\ console' = IF print_data
                  THEN console \cup {[kind |-> "cell", wl |-> all_data'[k].wl,
                                       bl |-> all_data'[k].bl, res |-> all_data'[k].res,
                                       success |-> all_data'[k].success] :
                                          k \in 1..Len(all_data')}
                  ELSE console
    /\ datafile' = IF d_record THEN all_data' ELSE <<>>
    /\ UNCHANGED <<cfgVars, hwVars, mask, res_array, res_defined, pulses, reads,
                   op, bl_selected, n_pw, n_vwl, n_vl, i_pw, i_vwl, i_vl,
                   success, stub, dev, never_hit, targetVars, tdsVars, endVars,
                   print_data, d_record, measVars, utilVars>>

NextMb ==
    \/ /\ pc = "idle"
       /\ \E member \in {"LESS_OR_EQUALS", "GREATER_OR_EQUALS"},
             a \in 0..MaxPW, b \in 1..MaxVWL, c \in 1..MaxVL :
             \E f \in [wls \X bls -> (TargetRes - 1)..(TargetRes + 1)] :
                MbCall(member, a, b, c, AsGrid(f))
    \/ DynPulse
    \/ /\ pc = "read"
       /\ \E f \in [wls \X bls -> (TargetRes - 1)..(TargetRes + 1)] : MbRead(AsGrid(f))
    \/ MbReport
    \/ DynReturn

SpecMb == InitDyn /\ [][NextMb]_vars

\* C39 (as claimed): when the initial read of dynamic_pulse_for_multibit
\* shows every addressed cell satisfying res_compare_op(res, target_res), the
\* call issues no pulse and returns one result per addressed (wl, bl), each
\* with success=true; otherwise the waveform of every pulse has frames only
\* for cells that did not satisfy the comparison in any read so far.
C39_SatisfiedAtFirstRead ==
    /\ (/\ pc \in {"report", "done", "raised"} /\ reads = 1 /\ n_pw >= 1
        /\ \A wl \in wls, bl \in bls : Comparison(op, res_array[wl][bl], TargetRes)) =>
           /\ pulses = 0
           /\ pc # "raised"
           /\ pc = "done" =>
                 /\ Len(all_data) = Cardinality(wls) * Cardinality(bls)
                 /\ \A k \in 1..Len(all_data) : all_data[k].success
    /\ pc = "read" =>
           \A wl \in wls, bl \in bls : ~mask[wl][bl] =>
               \A k \in 1..Len(hw_waveform) :
                   ~(/\ (hw_waveform[k] \div (2 ^ (NumWL - wl))) % 2 = 1
                     /\ (hw_waveform[k] \div (2 ^ (NumWL + NumSL + NumBL - bl))) % 2 = 1)
====
